---- MODULE Spec2Model ----
(***************************************************************************)
(* The EquiPathVerifier registry contract (the consensus design embedded   *)
(* in scripts/setup/compile-circuits.js, lines 507-897) as a state         *)
(* machine.  Every external function is one action; a call whose require   *)
(* fails reverts, leaving the whole contract state as it was; the message  *)
(* it reverts with is a function of the state and the arguments.           *)
(***************************************************************************)
EXTENDS Integers, Sequences, FiniteSets

\* ---------------------------------------------------------------- bounds
NumAddr == 2          \* accounts 1..NumAddr send transactions; 0 is address(0)
NumHash == 1          \* contribution hashes 1..NumHash; 0 is bytes32(0)
MaxWord == 1          \* other bytes32 arguments 0..MaxWord; 0 is bytes32(0)
MaxTime == 1          \* block.timestamp ranges over 0..MaxTime
MaxList == 2          \* registrations explored (length of verifierList)
MaxRaces == 2         \* pairs of concurrent transactions explored
MaxText == 2          \* characters of a public signal string
MaxEvents == 3        \* events in the single-party registry's log
MaxCalls == 1         \* calls of the SDK's methods in flight together
MaxSent == 1          \* transactions sent through the SDK

\* ------------------------------------------------------ program constants
MIN_VERIFICATIONS == 3
MAX_VERIFICATIONS == 10
NEUTRAL_REPUTATION == 500

Account  == 0..NumAddr         \* address arguments of the explored calls
Sender   == 1..NumAddr         \* msg.sender is never address(0)
Explored == 0..NumHash         \* the hashes the explored calls are given
Hash     == 0..(NumHash + 1)   \* one more, for the two-contribution runs
Word     == 0..MaxWord
Proof    == 0..(MaxWord + 1)    \* attribution proofs: zero and two different ones
Deployer == 1                  \* the account that runs the constructor
Panel    == 1..(MAX_VERIFICATIONS + 1)   \* the scenarios' verifiers: one more
                                         \* than the vote budget
Address  == Account \cup Panel

\* enum VerificationStatus
VerificationStatus == {"Pending", "Verified", "Rejected", "Disputed"}

VARIABLES
    contributions,             \* mapping(bytes32 => KnowledgeContribution)
    contributorContributions,  \* mapping(address => bytes32[])
    verifiers,                 \* mapping(address => Verifier)
    verifierList,              \* address[]
    owner,                     \* address
    now,                       \* block.timestamp of the block being built
    contributionEvents,        \* events indexed by contributionHash, in order
    verifierEvents,            \* VerifierRegistered events, in order
    votes,                     \* history: the attestations recorded per hash
    attested,                  \* scenario: isValid of the k-th panel member's call
    lastCall,                  \* the latest call observed and what it reverted with
    mempool,                   \* the transactions sent together and not yet all mined
    signer,                    \* SDK: this.signer, 0 while no signer is connected
    registry,                  \* the single-party registry contract's storage
    sdkCall,                   \* SDK: the calls of its async methods, each where
                               \* it stands (the line of the await it is
                               \* suspended at, or "done") with the objects its
                               \* caller passed; a settled one gives way to a new
    sent                       \* the transactions sent through the SDK, in order

chain == <<contributions, contributorContributions, verifiers, verifierList,
           owner, contributionEvents, verifierEvents, votes>>
vars  == <<contributions, contributorContributions, verifiers, verifierList,
           owner, now, contributionEvents, verifierEvents, votes, attested,
           lastCall, mempool, signer, registry, sdkCall, sent>>

\* The zero value of an unset mapping slot.
NoContribution ==
    [contributionHash |-> 0, culturalContext |-> 0, contributor |-> 0,
     status |-> "Pending", timestamp |-> 0, verificationCount |-> 0,
     attributionProof |-> 0]

NoVerifier ==
    [isActive |-> FALSE, verificationCount |-> 0, reputationScore |-> 0,
     qualifications |-> 0]

\* No transaction sent yet.
NoRace == [calls |-> {}, mined |-> {}, races |-> 0,
           contributions |-> [h \in Hash |-> NoContribution],
           verifiers |-> [a \in Address |-> NoVerifier]]

\* The single-party registry as deployed: the deployer owns it (the
\* constructor of Ownable makes it the owner and emits OwnershipTransferred),
\* counter 0, every mapping empty, no ether held; paid is the wei each
\* account has received from it.
NoRegistry ==
    [owner |-> Deployer,
     contributionIds |-> 0,
     contributions |-> [i \in 0..Cardinality(Hash) |->
        [contributionHash |-> 0, culturalContext |-> 0, attributionHash |-> 0,
         contributor |-> 0, timestamp |-> 0, verified |-> FALSE,
         compensationAmount |-> 0]],
     contributionHashToId |-> [h \in Hash |-> 0],
     culturalAuthorities |-> [c \in Word |-> [a \in Account |-> FALSE]],
     balance |-> 0,
     paid |-> [a \in Account |-> 0],
     events |-> <<[name |-> "OwnershipTransferred", previousOwner |-> 0,
                   newOwner |-> Deployer]>>]

\* constructor(): owner = msg.sender, every mapping empty.
Init ==
    /\ contributions = [h \in Hash |-> NoContribution]
    /\ contributorContributions = [a \in Address |-> <<>>]
    /\ verifiers = [a \in Address |-> NoVerifier]
    /\ verifierList = <<>>
    /\ owner = Deployer
    /\ now = 0
    /\ contributionEvents = [h \in Hash |-> <<>>]
    /\ verifierEvents = <<>>
    /\ votes = [h \in Hash |-> <<>>]
    /\ attested = <<>>
    /\ lastCall = [op |-> "constructor", err |-> ""]
    /\ mempool = NoRace
    /\ signer = 0
    /\ registry = NoRegistry
    /\ sdkCall = [i \in 1..MaxCalls |-> [op |-> "none", pc |-> "done"]]
    /\ sent = <<>>

\* The revert messages of the require statements.
OK                 == ""
NotOwner           == "EquiPathVerifier: caller is not owner"
NotActiveVerifier  == "EquiPathVerifier: caller is not active verifier"
DoesNotExist       == "EquiPathVerifier: contribution does not exist"
InvalidHash        == "EquiPathVerifier: invalid contribution hash"
InvalidContext     == "EquiPathVerifier: invalid cultural context"
InvalidAttribution == "EquiPathVerifier: invalid attribution proof"
AlreadyExists      == "EquiPathVerifier: contribution already exists"
InvalidProof       == "EquiPathVerifier: invalid verification proof"
NotPending         == "EquiPathVerifier: contribution not in pending status"
InvalidVerifier    == "EquiPathVerifier: invalid verifier address"
InvalidQualifications == "EquiPathVerifier: invalid qualifications"
AlreadyRegistered  == "EquiPathVerifier: verifier already registered"
NotActive          == "EquiPathVerifier: verifier not active"
ZeroOwner          == "EquiPathVerifier: new owner is zero address"

\* A reverted transaction changes nothing.
\* A revert that keeps a trace of the failed call in the event log.
RevertedLogged ==
    /\ verifierEvents' = Append(verifierEvents, [name |-> "Reverted"])
    /\ UNCHANGED <<contributions, contributorContributions, verifiers, verifierList,
                   owner, contributionEvents, votes, now>>

Reverted == UNCHANGED <<chain, now>>

\* onlyOwner testing the deployer, not the current owner.
onlyOwnerInitial(sender) == sender = Deployer

\* modifier onlyOwner
onlyOwner(sender) == sender = owner

\* onlyVerifier testing that the caller was registered, not that it is active.
onlyVerifierRegistered(sender) == verifiers[sender].qualifications # 0

\* modifier onlyVerifier
onlyVerifier(sender) == verifiers[sender].isActive

\* modifier contributionExists
contributionExists(h) == contributions[h].contributor # 0

\* submitContributionError without the cultural context require.
submitContributionErrorNoContext(sender, h, ctx, ap) ==
    IF h = 0 THEN InvalidHash
    ELSE IF ap = 0 THEN InvalidAttribution
    ELSE IF contributions[h].contributor # 0 THEN AlreadyExists
    ELSE OK

\* submitContributionError rejecting all attribution proofs but one.
submitContributionErrorCheckedProof(sender, h, ctx, ap) ==
    IF h = 0 THEN InvalidHash
    ELSE IF ctx = 0 THEN InvalidContext
    ELSE IF ap # 1 THEN InvalidAttribution
    ELSE IF contributions[h].contributor # 0 THEN AlreadyExists
    ELSE OK

\* submitContributionError without the "already exists" require.
submitContributionErrorOverwrite(sender, h, ctx, ap) ==
    IF h = 0 THEN InvalidHash
    ELSE IF ctx = 0 THEN InvalidContext
    ELSE IF ap = 0 THEN InvalidAttribution
    ELSE OK

\* submitContribution: the first require that fails, OK when none does.
submitContributionError(sender, h, ctx, ap) ==
    IF h = 0 THEN InvalidHash
    ELSE IF ctx = 0 THEN InvalidContext
    ELSE IF ap = 0 THEN InvalidAttribution
    ELSE IF contributions[h].contributor # 0 THEN AlreadyExists
    ELSE OK

\* function submitContribution(contributionHash, culturalContext, attributionProof)
submitContribution(sender, h, ctx, ap) ==
    IF submitContributionError(sender, h, ctx, ap) # OK THEN Reverted
    ELSE /\ contributions' = [contributions EXCEPT ![h] =
                [contributionHash |-> h, culturalContext |-> ctx,
                 contributor |-> sender, status |-> "Pending",
                 timestamp |-> now, verificationCount |-> 0,
                 attributionProof |-> ap]]
         /\ contributorContributions' =
                [contributorContributions EXCEPT ![sender] = Append(@, h)]
         /\ contributionEvents' = [contributionEvents EXCEPT ![h] = Append(@,
                [name |-> "ContributionSubmitted", contributionHash |-> h,
                 contributor |-> sender, culturalContext |-> ctx,
                 timestamp |-> now])]
         /\ UNCHANGED <<verifiers, verifierList, owner, now, verifierEvents, votes>>

\* verifyContributionError without the onlyVerifier modifier.
verifyContributionErrorAnyCaller(sender, h, proof, isValid) ==
    IF ~contributionExists(h) THEN DoesNotExist
    ELSE IF proof = 0 THEN InvalidProof
    ELSE IF contributions[h].status # "Pending" THEN NotPending
    ELSE OK

\* verifyContributionError without the "pending status" require.
verifyContributionErrorAnyStatus(sender, h, proof, isValid) ==
    IF ~onlyVerifier(sender) THEN NotActiveVerifier
    ELSE IF ~contributionExists(h) THEN DoesNotExist
    ELSE IF proof = 0 THEN InvalidProof
    ELSE OK

\* verifyContribution: the modifiers in order, then the requires.
verifyContributionError(sender, h, proof, isValid) ==
    IF ~onlyVerifier(sender) THEN NotActiveVerifier
    ELSE IF ~contributionExists(h) THEN DoesNotExist
    ELSE IF proof = 0 THEN InvalidProof
    ELSE IF contributions[h].status # "Pending" THEN NotPending
    ELSE OK

\* NewStatus with the threshold off by one: one attestation too early.
NewStatusEarly(status, count, isValid) ==
    IF isValid /\ count >= MIN_VERIFICATIONS - 1 THEN "Verified"
    ELSE IF ~isValid /\ count >= MIN_VERIFICATIONS - 1 THEN "Rejected"
    ELSE status

\* NewStatus with the threshold compared strictly: one attestation too late.
NewStatusLate(status, count, isValid) ==
    IF isValid /\ count > MIN_VERIFICATIONS THEN "Verified"
    ELSE IF ~isValid /\ count > MIN_VERIFICATIONS THEN "Rejected"
    ELSE status

\* NewStatus without the rejection: the flag of the deciding attestation is
\* not looked at.
NewStatusFlagIgnored(status, count, isValid) ==
    IF count >= MIN_VERIFICATIONS THEN "Verified" ELSE status

\* NewStatus without the finalization: the status is never changed.
NewStatusNever(status, count, isValid) == status

\* The status verifyContribution computes once it has incremented the count.
NewStatus(status, count, isValid) ==
    IF isValid /\ count >= MIN_VERIFICATIONS THEN "Verified"
    ELSE IF ~isValid /\ count >= MIN_VERIFICATIONS THEN "Rejected"
    ELSE status

\* The counter incremented twice per call.
IncrementedTwice(n) == n + 2

\* verificationCount++ (of the contribution and of the verifier)
Incremented(n) == n + 1

\* StatusChanged emitted by every call, whether or not the status changed.
StatusChangedEventsAlways(h, oldStatus, newStatus) ==
    <<[name |-> "StatusChanged", contributionHash |-> h,
       oldStatus |-> oldStatus, newStatus |-> newStatus, timestamp |-> now]>>

\* "Update status if changed": the StatusChanged event the call emits, if any.
StatusChangedEvents(h, oldStatus, newStatus) ==
    IF newStatus # oldStatus
    THEN <<[name |-> "StatusChanged", contributionHash |-> h,
            oldStatus |-> oldStatus, newStatus |-> newStatus, timestamp |-> now]>>
    ELSE <<>>

\* function verifyContribution(contributionHash, verificationProof, isValid)
verifyContribution(sender, h, proof, isValid) ==
    IF verifyContributionError(sender, h, proof, isValid) # OK THEN Reverted
    ELSE LET count     == Incremented(contributions[h].verificationCount)
             oldStatus == contributions[h].status
             newStatus == NewStatus(oldStatus, count, isValid)
             verified  == <<[name |-> "ContributionVerified", contributionHash |-> h,
                             verifier |-> sender, status |-> newStatus,
                             verificationCount |-> count]>>
         IN /\ contributions' = [contributions EXCEPT
                    ![h].verificationCount = count, ![h].status = newStatus]
            /\ verifiers' = [verifiers EXCEPT
                    ![sender].verificationCount = Incremented(@)]
            /\ contributionEvents' = [contributionEvents EXCEPT ![h] =
                    @ \o StatusChangedEvents(h, oldStatus, newStatus) \o verified]
            /\ votes' = [votes EXCEPT ![h] =
                    Append(@, [verifier |-> sender, isValid |-> isValid])]
            /\ UNCHANGED <<contributorContributions, verifierList, owner, now,
                           verifierEvents>>

\* registerVerifierError without the "already registered" require.
registerVerifierErrorAgain(sender, verifier, qualifications) ==
    IF ~onlyOwner(sender) THEN NotOwner
    ELSE IF verifier = 0 THEN InvalidVerifier
    ELSE IF qualifications = 0 THEN InvalidQualifications
    ELSE OK

\* registerVerifier: onlyOwner, then the requires.
registerVerifierError(sender, verifier, qualifications) ==
    IF ~onlyOwner(sender) THEN NotOwner
    ELSE IF verifier = 0 THEN InvalidVerifier
    ELSE IF qualifications = 0 THEN InvalidQualifications
    ELSE IF verifiers[verifier].isActive THEN AlreadyRegistered
    ELSE OK

\* function registerVerifier(verifier, qualifications)
registerVerifier(sender, verifier, qualifications) ==
    IF registerVerifierError(sender, verifier, qualifications) # OK THEN Reverted
    ELSE /\ verifiers' = [verifiers EXCEPT ![verifier] =
                [isActive |-> TRUE, verificationCount |-> 0,
                 reputationScore |-> NEUTRAL_REPUTATION,
                 qualifications |-> qualifications]]
         /\ verifierList' = Append(verifierList, verifier)
         /\ verifierEvents' = Append(verifierEvents,
                [name |-> "VerifierRegistered", verifier |-> verifier,
                 qualifications |-> qualifications, timestamp |-> now])
         /\ UNCHANGED <<contributions, contributorContributions, owner, now,
                        contributionEvents, votes>>

\* deactivateVerifier: onlyOwner, then the require.
deactivateVerifierError(sender, verifier) ==
    IF ~onlyOwner(sender) THEN NotOwner
    ELSE IF ~verifiers[verifier].isActive THEN NotActive
    ELSE OK

\* deactivateVerifier deleting the verifier's record.
deactivateVerifierErasing(sender, verifier) ==
    IF deactivateVerifierError(sender, verifier) # OK THEN Reverted
    ELSE /\ verifiers' = [verifiers EXCEPT ![verifier] = NoVerifier]
         /\ UNCHANGED <<contributions, contributorContributions, verifierList, owner,
                        now, contributionEvents, verifierEvents, votes>>

\* function deactivateVerifier(verifier)
deactivateVerifier(sender, verifier) ==
    IF deactivateVerifierError(sender, verifier) # OK THEN Reverted
    ELSE /\ verifiers' = [verifiers EXCEPT ![verifier].isActive = FALSE]
         /\ UNCHANGED <<contributions, contributorContributions, verifierList, owner,
                        now, contributionEvents, verifierEvents, votes>>

\* transferOwnershipError without the zero address require.
transferOwnershipErrorToZero(sender, newOwner) ==
    IF ~onlyOwner(sender) THEN NotOwner ELSE OK

\* transferOwnership: onlyOwner, then the require.
transferOwnershipError(sender, newOwner) ==
    IF ~onlyOwner(sender) THEN NotOwner
    ELSE IF newOwner = 0 THEN ZeroOwner
    ELSE OK

\* function transferOwnership(newOwner)
transferOwnership(sender, newOwner) ==
    IF transferOwnershipError(sender, newOwner) # OK THEN Reverted
    ELSE /\ owner' = newOwner
         /\ UNCHANGED <<contributions, contributorContributions, verifiers, verifierList,
                        now, contributionEvents, verifierEvents, votes>>

\* emergencyPause: onlyOwner.
emergencyPauseError(sender) == IF ~onlyOwner(sender) THEN NotOwner ELSE OK

\* emergencyPause halting the attestations: every verifier is deactivated.
emergencyPauseHalting(sender) ==
    IF emergencyPauseError(sender) # OK THEN Reverted
    ELSE /\ verifiers' = [a \in Address |-> [verifiers[a] EXCEPT !.isActive = FALSE]]
         /\ UNCHANGED <<contributions, contributorContributions, verifierList,
                        owner, now, contributionEvents, verifierEvents, votes>>

\* function emergencyPause(): an empty body.
emergencyPause(sender) ==
    IF emergencyPauseError(sender) # OK THEN Reverted
    ELSE UNCHANGED <<chain, now>>

\* getContribution: a view with the contributionExists modifier.
getContributionError(h) == IF ~contributionExists(h) THEN DoesNotExist ELSE OK

\* function getContribution(contributionHash): the record of the hash.
getContribution(h) == contributions[h]

\* isContributionVerified: a view with the contributionExists modifier.
isContributionVerifiedError(h) == IF ~contributionExists(h) THEN DoesNotExist ELSE OK

\* isContributionVerified answering true for every finalized contribution.
isContributionVerifiedFinal(h) == contributions[h].status # "Pending"

\* function isContributionVerified(contributionHash)
isContributionVerified(h) == contributions[h].status = "Verified"

\* The next block: block.timestamp does not decrease.
NextBlock ==
    /\ now < MaxTime
    /\ now' = now + 1
    /\ UNCHANGED chain

\* ------------------------------------------------------------------------
\* Any account calls any function with any argument.
Submit ==
    \E s \in Sender, h \in Explored, ctx \in Word, ap \in Word :
        submitContribution(s, h, ctx, ap) /\ UNCHANGED <<attested, lastCall, mempool, signer, registry, sdkCall, sent>>

Attest ==
    \E s \in Sender, h \in Explored, p \in Word, v \in BOOLEAN :
        verifyContribution(s, h, p, v) /\ UNCHANGED <<attested, lastCall, mempool, signer, registry, sdkCall, sent>>

Register ==
    \E s \in Sender, a \in Account, q \in Word :
        /\ Len(verifierList) < MaxList
        /\ registerVerifier(s, a, q) /\ UNCHANGED <<attested, lastCall, mempool, signer, registry, sdkCall, sent>>

Deactivate ==
    \E s \in Sender, a \in Account :
        deactivateVerifier(s, a) /\ UNCHANGED <<attested, lastCall, mempool, signer, registry, sdkCall, sent>>

Transfer ==
    \E s \in Sender, a \in Account :
        transferOwnership(s, a) /\ UNCHANGED <<attested, lastCall, mempool, signer, registry, sdkCall, sent>>

Pause == \E s \in Sender : emergencyPause(s) /\ UNCHANGED <<attested, lastCall, mempool, signer, registry, sdkCall, sent>>

Tick == NextBlock /\ UNCHANGED <<attested, lastCall, mempool, signer, registry, sdkCall, sent>>

Next == Submit \/ Attest \/ Register \/ Deactivate \/ Transfer \/ Pause \/ Tick

Spec == Init /\ [][Next]_vars

\* ------------------------------------------------------------------------
\* The consensus scenarios: the owner registers the panel one verifier after
\* the other, a contribution is submitted, and the panel members attest on
\* it in turn, each at most once.
ScenarioHash == NumHash

PanelRegister ==
    /\ Len(verifierList) < Cardinality(Panel)
    /\ registerVerifier(Deployer, Len(verifierList) + 1, 1)
    /\ UNCHANGED <<attested, lastCall, mempool, signer, registry, sdkCall, sent>>

PanelSubmit ==
    /\ ~contributionExists(ScenarioHash)
    /\ submitContribution(Deployer, ScenarioHash, 1, 1)
    /\ UNCHANGED <<attested, lastCall, mempool, signer, registry, sdkCall, sent>>

PanelAttest ==
    \E isValid \in BOOLEAN :
        /\ contributionExists(ScenarioHash)
        /\ Len(attested) < Len(verifierList)
        /\ verifyContribution(Len(attested) + 1, ScenarioHash, 1, isValid)
        /\ attested' = Append(attested, isValid)
        /\ UNCHANGED <<lastCall, mempool, signer, registry, sdkCall, sent>>

ScenarioSpec == Init /\ [][PanelRegister \/ PanelSubmit \/ PanelAttest]_vars

\* ------------------------------------------------------------------------
\* Concurrent attestations: the owner registers the verifiers, contributions
\* are submitted, and two verifyContribution transactions are sent at the
\* same time; the chain mines them one after the other, in either order,
\* each as one atomic transaction. The state the senders saw when they sent
\* the transactions is kept with them.
RaceHash == {ScenarioHash, NumHash + 1}

RaceCall == [sender : Sender, h : RaceHash, isValid : BOOLEAN]

RaceRegister ==
    /\ Len(verifierList) < NumAddr
    /\ registerVerifier(Deployer, Len(verifierList) + 1, 1)
    /\ UNCHANGED <<attested, lastCall, mempool, signer, registry, sdkCall, sent>>

RaceSubmit ==
    \E h \in RaceHash :
        /\ ~contributionExists(h)
        /\ submitContribution(Deployer, h, 1, 1)
        /\ UNCHANGED <<attested, lastCall, mempool, signer, registry, sdkCall, sent>>

RaceSend ==
    \E c1 \in RaceCall, c2 \in RaceCall :
        /\ c1 # c2
        /\ mempool.mined = mempool.calls
        /\ mempool.races < MaxRaces
        /\ mempool' = [calls |-> {c1, c2}, mined |-> {},
                       races |-> mempool.races + 1,
                       contributions |-> contributions, verifiers |-> verifiers]
        /\ UNCHANGED <<chain, now, attested, lastCall, signer, registry, sdkCall, sent>>

RaceMine ==
    \E c \in mempool.calls \ mempool.mined :
        /\ verifyContribution(c.sender, c.h, 1, c.isValid)
        /\ mempool' = [mempool EXCEPT !.mined = @ \cup {c}]
        /\ UNCHANGED <<attested, lastCall, signer, registry, sdkCall, sent>>

RaceSpec == Init /\ [][RaceRegister \/ RaceSubmit \/ RaceSend \/ RaceMine]_vars

\* ------------------------------------------------------------------------
\* The calls observed: as in Spec, any account calls any function with any
\* argument, within one block, and the outcome of each call is kept: the
\* message it reverted with, or OK.
Called(op, err) == lastCall' = [op |-> op, err |-> err]

CallSubmit ==
    \E s \in Sender, h \in Explored, ctx \in Word, ap \in Proof :
        /\ submitContribution(s, h, ctx, ap)
        /\ Called("submitContribution", submitContributionError(s, h, ctx, ap))
        /\ UNCHANGED <<attested, mempool, signer, registry, sdkCall, sent>>

CallAttest ==
    \E s \in Sender, h \in Explored, p \in Word, v \in BOOLEAN :
        /\ verifyContribution(s, h, p, v)
        /\ Called("verifyContribution", verifyContributionError(s, h, p, v))
        /\ UNCHANGED <<attested, mempool, signer, registry, sdkCall, sent>>

CallRegister ==
    \E s \in Sender, a \in Account, q \in Word :
        /\ Len(verifierList) < MaxList
        /\ registerVerifier(s, a, q)
        /\ Called("registerVerifier", registerVerifierError(s, a, q))
        /\ UNCHANGED <<attested, mempool, signer, registry, sdkCall, sent>>

CallDeactivate ==
    \E s \in Sender, a \in Account :
        /\ deactivateVerifier(s, a)
        /\ Called("deactivateVerifier", deactivateVerifierError(s, a))
        /\ UNCHANGED <<attested, mempool, signer, registry, sdkCall, sent>>

CallTransfer ==
    \E s \in Sender, a \in Account :
        /\ transferOwnership(s, a)
        /\ Called("transferOwnership", transferOwnershipError(s, a))
        /\ UNCHANGED <<attested, mempool, signer, registry, sdkCall, sent>>

CallPause ==
    \E s \in Sender :
        /\ emergencyPause(s)
        /\ Called("emergencyPause", emergencyPauseError(s))
        /\ UNCHANGED <<attested, mempool, signer, registry, sdkCall, sent>>

CallNext ==
    CallSubmit \/ CallAttest \/ CallRegister \/ CallDeactivate \/ CallTransfer
        \/ CallPause

CallSpec == Init /\ [][CallNext]_vars

\* ------------------------------------------------------------------------
\* The views observed: along the consensus scenarios, anyone reads any hash
\* with getContribution and isContributionVerified, and what the read
\* answered is kept: the revert message or OK, and the value returned.
NoReturn == [reverted |-> TRUE]

Viewed(op, h, err, ret) ==
    /\ lastCall' = [op |-> op, h |-> h, err |-> err,
                    ret |-> IF err # OK THEN NoReturn ELSE ret]
    /\ UNCHANGED <<chain, now, attested, mempool, signer, registry, sdkCall, sent>>

ViewGet ==
    \E h \in Hash :
        Viewed("getContribution", h, getContributionError(h), getContribution(h))

ViewIsVerified ==
    \E h \in Hash :
        Viewed("isContributionVerified", h, isContributionVerifiedError(h),
               [isVerified |-> isContributionVerified(h)])

ViewSpec ==
    Init /\ [][PanelRegister \/ PanelSubmit \/ PanelAttest \/ ViewGet
                \/ ViewIsVerified]_vars

\* ------------------------------------------------------------------------
\* Two contributions and one verifier: any account submits either hash, the
\* owner registers the verifier, deactivates it and hands the ownership on,
\* the verifier, or anyone else, attests on either hash, and time passes.
FrameVerifier == Deployer

FrameSubmit ==
    \E s \in Sender, h \in RaceHash :
        submitContribution(s, h, 1, 1) /\ UNCHANGED <<attested, lastCall, mempool, signer, registry, sdkCall, sent>>

FrameRegister ==
    /\ verifierList = <<>>
    /\ registerVerifier(owner, FrameVerifier, 1)
    /\ UNCHANGED <<attested, lastCall, mempool, signer, registry, sdkCall, sent>>

FrameDeactivate ==
    deactivateVerifier(owner, FrameVerifier) /\ UNCHANGED <<attested, lastCall, mempool, signer, registry, sdkCall, sent>>

FrameAttest ==
    \E s \in Sender, h \in RaceHash, v \in BOOLEAN :
        verifyContribution(s, h, 1, v) /\ UNCHANGED <<attested, lastCall, mempool, signer, registry, sdkCall, sent>>

FrameTransfer ==
    \E a \in Sender :
        transferOwnership(owner, a) /\ UNCHANGED <<attested, lastCall, mempool, signer, registry, sdkCall, sent>>

FrameNext ==
    FrameSubmit \/ FrameRegister \/ FrameDeactivate \/ FrameAttest \/ FrameTransfer \/ Tick

FrameSpec == Init /\ [][FrameNext]_vars

\* ------------------------------------------------------------------------
\* The single-party registry: the contract whose verifyContribution takes the
\* proof itself and records the contribution as verified at once.
\* _verifyZKProof accepting every proof.
verifyZKProofAny(proofA, proofB, proofC, publicSignals) == TRUE

\* function _verifyZKProof: the first element of each component is not zero
\* (Solidity counts array elements from 0, a tuple here from 1).
verifyZKProof(proofA, proofB, proofC, publicSignals) ==
    proofA[1] # 0 /\ proofB[1][1] # 0 /\ proofC[1] # 0

\* The requires of the registry's verifyContribution, in order.
registryVerifyContributionError(sender, h, ctx, attr, proofA, proofB, proofC, publicSignals) ==
    IF h = 0 THEN "Invalid contribution hash"
    ELSE IF ctx = 0 THEN "Invalid cultural context"
    ELSE IF registry.contributionHashToId[h] # 0
         THEN "Contribution already verified"
    ELSE IF ~verifyZKProof(proofA, proofB, proofC, publicSignals)
         THEN "Invalid zk-SNARK proof"
    ELSE OK

\* The registry after a verifyContribution call: as before when the call
\* reverts, else with the counter incremented and the contribution stored.
registryVerifyContribution(sender, h, ctx, attr, proofA, proofB, proofC, publicSignals) ==
    IF registryVerifyContributionError(sender, h, ctx, attr, proofA, proofB,
                                       proofC, publicSignals) # OK
    THEN registry
    ELSE LET contributionId == registry.contributionIds + 1
         IN  [registry EXCEPT
                !.contributionIds = contributionId,
                !.contributions[contributionId] =
                    [contributionHash |-> h, culturalContext |-> ctx,
                     attributionHash |-> attr, contributor |-> sender,
                     timestamp |-> now, verified |-> TRUE,
                     compensationAmount |-> 0],
                !.contributionHashToId[h] = contributionId,
                !.events = Append(@,
                    [name |-> "ContributionVerified", contributionId |-> contributionId,
                     contributionHash |-> h, contributor |-> sender,
                     culturalContext |-> ctx, timestamp |-> now])]

\* The requires of the registry's addCulturalAuthority, after onlyOwner
\* (Ownable's modifier, with its message).
registryAddCulturalAuthorityError(sender, culturalContext, authority) ==
    IF sender # registry.owner THEN "Ownable: caller is not the owner"
    ELSE IF authority = 0 THEN "Invalid authority address"
    ELSE OK

\* The registry after an addCulturalAuthority call: as before when the call
\* reverts, else with the authority set for the context and the event emitted.
registryAddCulturalAuthority(sender, culturalContext, authority) ==
    IF registryAddCulturalAuthorityError(sender, culturalContext, authority) # OK
    THEN registry
    ELSE [registry EXCEPT
            !.culturalAuthorities[culturalContext][authority] = TRUE,
            !.events = Append(@,
                [name |-> "CulturalAuthorityAdded",
                 culturalContext |-> culturalContext, authority |-> authority])]

\* The requires of the registry's distributeCompensation, after onlyOwner;
\* value is msg.value.
registryDistributeCompensationError(sender, value, contributionId, amount) ==
    IF sender # registry.owner THEN "Ownable: caller is not the owner"
    ELSE IF contributionId > registry.contributionIds THEN "Invalid contribution ID"
    ELSE IF ~registry.contributions[contributionId].verified
         THEN "Contribution not verified"
    ELSE IF value < amount THEN "Insufficient payment"
    ELSE OK

\* The registry after a distributeCompensation call: as before when the call
\* reverts, else with the amount added to the contribution's compensation
\* and transferred to its contributor (an externally owned account), what
\* msg.value exceeds it by kept, and the event emitted.
registryDistributeCompensation(sender, value, contributionId, amount) ==
    IF registryDistributeCompensationError(sender, value, contributionId, amount) # OK
    THEN registry
    ELSE LET contributor == registry.contributions[contributionId].contributor
         IN  [registry EXCEPT
                !.contributions[contributionId].compensationAmount = @ + amount,
                !.balance = @ + value - amount,
                !.paid[contributor] = @ + amount,
                !.events = Append(@,
                    [name |-> "CompensationDistributed",
                     contributionId |-> contributionId,
                     contributor |-> contributor, amount |-> amount])]

\* The requires of transferOwnership, which the registry inherits from
\* Ownable (OpenZeppelin 4): onlyOwner, then the new owner is not address(0).
registryTransferOwnershipError(sender, newOwner) ==
    IF sender # registry.owner THEN "Ownable: caller is not the owner"
    ELSE IF newOwner = 0 THEN "Ownable: new owner is the zero address"
    ELSE OK

\* The registry after a transferOwnership call: as before when the call
\* reverts, else owned by the new owner, the event emitted.
registryTransferOwnership(sender, newOwner) ==
    IF registryTransferOwnershipError(sender, newOwner) # OK
    THEN registry
    ELSE [registry EXCEPT
            !.owner = newOwner,
            !.events = Append(@,
                [name |-> "OwnershipTransferred",
                 previousOwner |-> registry.owner, newOwner |-> newOwner])]

\* The registry after a renounceOwnership call (inherited from Ownable as
\* well): as before when the caller is not the owner, else owned by
\* address(0), so that onlyOwner lets nobody in any more.
registryRenounceOwnership(sender) ==
    IF sender # registry.owner
    THEN registry
    ELSE [registry EXCEPT
            !.owner = 0,
            !.events = Append(@,
                [name |-> "OwnershipTransferred",
                 previousOwner |-> registry.owner, newOwner |-> 0])]

\* ------------------------------------------------------------------------
\* The SDK's proof gateway. A string is a sequence of characters; a number
\* is a double: NaN, an integer that the integers of this module hold, or
\* what Double makes of a greater one.
Char == {"1", "-", "x"}

RECURSIVE Text(_)
Text(n) == IF n = 0 THEN {<<>>}
           ELSE Text(n - 1) \cup {Append(t, c) : t \in Text(n - 1), c \in Char}

Num(n) == [nan |-> FALSE, value |-> n]
NaN    == [nan |-> TRUE, value |-> 0]

\* What reading past the end of an array gives, and how it prints.
Undefined == <<"undefined">>

\* array[i], the array counted from 0.
At(array, i) == IF i + 1 \in DOMAIN array THEN array[i + 1] ELSE Undefined

\* The value of a character as a digit of the radix, or -1.
DigitValue(c, radix) ==
    LET v == CASE c = "0" -> 0 [] c = "1" -> 1 [] c = "2" -> 2 [] c = "3" -> 3
               [] c = "4" -> 4 [] c = "5" -> 5 [] c = "6" -> 6 [] c = "7" -> 7
               [] c = "8" -> 8 [] c = "9" -> 9
               [] c \in {"a", "A"} -> 10 [] c \in {"b", "B"} -> 11
               [] c \in {"c", "C"} -> 12 [] c \in {"d", "D"} -> 13
               [] c \in {"e", "E"} -> 14 [] c \in {"f", "F"} -> 15
               [] OTHER -> -1
    IN  IF v < radix THEN v ELSE -1

\* The characters parseInt skips at the start of a string: the white space
\* and the line terminators of ECMAScript. A character that a string of this
\* module cannot hold is written by its code point.
StrWhiteSpaceChar ==
    {" ", "\t", "\n", "\r", "\f", "U+000B", "U+00A0", "U+1680", "U+2000",
     "U+2001", "U+2002", "U+2003", "U+2004", "U+2005", "U+2006", "U+2007",
     "U+2008", "U+2009", "U+200A", "U+2028", "U+2029", "U+202F", "U+205F",
     "U+3000", "U+FEFF"}

RECURSIVE StripSpace(_)
StripSpace(t) ==
    IF t # <<>> /\ Head(t) \in StrWhiteSpaceChar THEN StripSpace(Tail(t)) ELSE t

\* The number of leading characters of t that are digits of the radix.
RECURSIVE LeadingDigits(_, _)
LeadingDigits(t, radix) ==
    IF t = <<>> \/ DigitValue(Head(t), radix) < 0 THEN 0
    ELSE 1 + LeadingDigits(Tail(t), radix)

\* A natural number of any size is written as the sequence of its digits
\* of a base, the least significant first and the most significant not 0
\* (zero is the empty sequence). MulAdd is digits * k + c, for c below
\* the base.
RECURSIVE MulAdd(_, _, _, _)
MulAdd(digits, base, k, c) ==
    IF digits = <<>>
    THEN IF c = 0 THEN <<>> ELSE <<c>>
    ELSE <<(Head(digits) * k + c) % base>>
            \o MulAdd(Tail(digits), base, k, (Head(digits) * k + c) \div base)

\* The value of a sequence of digits of the radix, in digits of base 2^24.
RECURSIVE DigitsValue(_, _)
DigitsValue(t, radix) ==
    IF t = <<>> THEN <<>>
    ELSE MulAdd(DigitsValue(SubSeq(t, 1, Len(t) - 1), radix), 2^24, radix,
                DigitValue(t[Len(t)], radix))

\* The Number that a natural number, in digits of base 2^24, and a sign
\* make: the double nearest to it, which is the number itself when 53 binary
\* digits write it and else its leading 53 binary digits rounded to the
\* nearest, to the even one of two equally near, and Infinity from 2^1024
\* on. Zero keeps its sign. An integer beyond those of this module (31
\* binary digits) is given in binary digits, the least significant first.
Double(digits, negative) ==
    LET top   == digits[Len(digits)]
        width == CHOOSE w \in 1..24 : 2^(w - 1) <= top /\ top < 2^w
        n     == IF digits = <<>> THEN 0 ELSE 24 * (Len(digits) - 1) + width
        bits  == [i \in 1..n |-> (digits[(i - 1) \div 24 + 1] \div 2^((i - 1) % 24)) % 2]
        cut   == n - 53
        high  == [i \in 1..53 |-> bits[cut + i]]
        up    == /\ bits[cut] = 1
                 /\ (high[1] = 1 \/ \E i \in 1..(cut - 1) : bits[i] = 1)
        r     == IF cut <= 0 THEN bits
                 ELSE [i \in 1..cut |-> 0]
                        \o (IF up THEN MulAdd(high, 2, 1, 1) ELSE high)
    IN  IF Len(r) > 1024
        THEN [nan |-> FALSE, infinite |-> TRUE, negative |-> negative]
        ELSE IF Len(r) > 31
        THEN [nan |-> FALSE, bits |-> r, negative |-> negative]
        ELSE IF r = <<>> /\ negative
        THEN [nan |-> FALSE, value |-> 0, negative |-> TRUE]
        ELSE LET value == (IF Len(digits) > 0 THEN digits[1] ELSE 0)
                            + (IF Len(digits) > 1 THEN digits[2] * 2^24 ELSE 0)
             IN  Num(IF negative THEN 0 - value ELSE value)

\* parseInt(string): leading white space skipped, an optional sign, an
\* optional 0x for radix 16, then as many digits as there are; NaN if none.
parseInt(t) ==
    LET u      == StripSpace(t)
        signed == u # <<>> /\ Head(u) \in {"-", "+"}
        w      == IF signed THEN Tail(u) ELSE u
        hex    == Len(w) >= 2 /\ w[1] = "0" /\ w[2] \in {"x", "X"}
        radix  == IF hex THEN 16 ELSE 10
        d      == IF hex THEN SubSeq(w, 3, Len(w)) ELSE w
        k      == LeadingDigits(d, radix)
    IN  IF k = 0 THEN NaN
        ELSE Double(DigitsValue(SubSeq(d, 1, k), radix), signed /\ Head(u) = "-")

\* A group element of a proof, and proofs of the shape groth16 takes and not.
G1 == <<"1", "0", "1">>
G2 == <<<<"1", "0">>, <<"0", "1">>, <<"1", "0">>>>

ProofObject ==
    {[pi_a |-> G1, pi_b |-> G2, pi_c |-> G1],
     [pi_a |-> <<"1", "0">>, pi_b |-> G2, pi_c |-> G1],
     [pi_a |-> G1, pi_b |-> <<<<"1", "0">>, <<"0">>, <<"1", "0">>>>, pi_c |-> G1],
     [pi_a |-> G1, pi_b |-> G2, pi_c |-> <<>>]}

WellShaped(proof) ==
    /\ Len(proof.pi_a) = 3
    /\ Len(proof.pi_b) = 3 /\ \A i \in 1..3 : Len(proof.pi_b[i]) = 2
    /\ Len(proof.pi_c) = 3

\* The public signals handed in: none, or three of them.
PublicSignals ==
    {<<>>} \cup {<<s0, <<"x">>, s2>> : s0 \in {<<"1">>, <<"0">>}, s2 \in Text(MaxText)}

\* What snarkjs.groth16.verify may do with a proof: resolve to true or to
\* false, or throw.
PairingCheck == {"true", "false", "throw"}

\* What verifyProof throws: the CircuitError wrapping an exception of the check.
verifyProofThrown(proof, publicSignals, check) ==
    IF check = "throw" THEN "CircuitError" ELSE ""

\* verifyProof taking the quality score from public signal 1.
verifyProofResultShifted(proof, publicSignals, check) ==
    IF check = "false"
    THEN [verified |-> FALSE, attributionProof |-> <<>>, qualityScore |-> Num(0)]
    ELSE [verified |-> At(publicSignals, 0) = <<"1">>,
          attributionProof |-> At(publicSignals, 1),
          qualityScore |-> parseInt(At(publicSignals, 1))]

\* What verifyProof resolves to when it does not throw.
verifyProofResult(proof, publicSignals, check) ==
    IF check = "false"
    THEN [verified |-> FALSE, attributionProof |-> <<>>, qualityScore |-> Num(0)]
    ELSE [verified |-> At(publicSignals, 0) = <<"1">>,
          attributionProof |-> At(publicSignals, 1),
          qualityScore |-> parseInt(At(publicSignals, 2))]

NoValue == [thrown |-> TRUE]

\* connectSigner(signer): the signer is kept and the contract rebound to it;
\* a method suspended at an await goes on with the new one.
connectSigner(s) ==
    /\ signer' = s
    /\ UNCHANGED <<chain, now, attested, mempool, lastCall, registry, sdkCall, sent>>

\* The caller of a method changes, while the method is suspended at an
\* await, the objects it passed.
callerMutates(i, contribution, proof) ==
    /\ sdkCall[i].pc # "done"
    /\ sdkCall' = [sdkCall EXCEPT ![i].contribution = contribution,
                                  ![i].proof = proof]
    /\ UNCHANGED <<chain, now, attested, lastCall, mempool, signer, registry, sent>>

\* async verifyProof(proof, params), called: it runs to the await of line
\* 228, having read nothing of proof and params.
verifyProof(i, proof, params) ==
    /\ sdkCall[i].pc = "done"
    /\ sdkCall' =
        [sdkCall EXCEPT ![i] =
            [op |-> "verifyProof", pc |-> "228", contribution |-> NoValue,
             proof |-> proof, params |-> params, checked |-> NoValue,
             check |-> "", thrown |-> "", value |-> NoValue]]
    /\ UNCHANGED <<chain, now, attested, lastCall, mempool, signer, registry, sent>>

\* verifyProof resumed at line 228: loadVerificationKey has returned its
\* literal, and snarkjs.groth16.verify is called with the proof and the
\* public signals as they are now (line 231).
verifyProofResume228(i) ==
    /\ sdkCall[i].op = "verifyProof" /\ sdkCall[i].pc = "228"
    /\ sdkCall' = [sdkCall EXCEPT ![i].pc = "231", ![i].checked = sdkCall[i].proof]
    /\ UNCHANGED <<chain, now, attested, lastCall, mempool, signer, registry, sent>>

\* verifyProof resumed at line 231 with what the check made of the proof
\* handed to it: the result is read from the public signals as they are now
\* (lines 237-254), or the exception wrapped (256-258).
verifyProofResume231(i, check) ==
    /\ sdkCall[i].op = "verifyProof" /\ sdkCall[i].pc = "231"
    /\ LET proof         == sdkCall[i].proof.proof
           publicSignals == sdkCall[i].proof.publicSignals
       IN  sdkCall' =
            [sdkCall EXCEPT
                ![i].pc = "done", ![i].check = check,
                ![i].thrown = verifyProofThrown(proof, publicSignals, check),
                ![i].value = IF verifyProofThrown(proof, publicSignals, check) # ""
                             THEN NoValue
                             ELSE verifyProofResult(proof, publicSignals, check)]
    /\ UNCHANGED <<chain, now, attested, lastCall, mempool, signer, registry, sent>>

\* The single-party registry's callers: anyone calls verifyContribution
\* with any proof, addCulturalAuthority, distributeCompensation, and the
\* transferOwnership and renounceOwnership of Ownable.
ProofHead == {<<0, 1>>, <<1, 0>>}

RegistryVerify ==
    \E s \in Sender, h \in Hash, ctx \in Word,
       a \in ProofHead, b \in ProofHead, c \in ProofHead :
        LET proofB == <<b, <<1, 1>>>>
            publicSignals == <<1, 1, 1>>
            attr == 1
        IN  /\ Cardinality({i \in 1..3 : <<a, b, c>>[i][1] = 0}) <= 1
            /\ registry' = registryVerifyContribution(s, h, ctx, attr, a, proofB, c,
                                                      publicSignals)
            /\ lastCall' =
                [op |-> "registry.verifyContribution",
                 err |-> registryVerifyContributionError(s, h, ctx, attr, a, proofB,
                                                         c, publicSignals),
                 h |-> h, ctx |-> ctx, proofA |-> a, proofB |-> proofB, proofC |-> c]
            /\ UNCHANGED <<chain, now, attested, mempool, signer, sdkCall, sent>>

RegistryAddAuthority ==
    \E s \in Sender, authority \in 0..1 :
        /\ Len(registry.events) < MaxEvents
        /\ registry' = registryAddCulturalAuthority(s, 1, authority)
        /\ lastCall' =
            [op |-> "registry.addCulturalAuthority",
             err |-> registryAddCulturalAuthorityError(s, 1, authority)]
        /\ UNCHANGED <<chain, now, attested, mempool, signer, sdkCall, sent>>

RegistryDistribute ==
    \E s \in Sender, value \in Word, amount \in Word,
       contributionId \in 0..(registry.contributionIds + 1) :
        /\ Len(registry.events) < MaxEvents
        /\ registry' = registryDistributeCompensation(s, value, contributionId, amount)
        /\ lastCall' =
            [op |-> "registry.distributeCompensation",
             err |-> registryDistributeCompensationError(s, value, contributionId,
                                                         amount)]
        /\ UNCHANGED <<chain, now, attested, mempool, signer, sdkCall, sent>>

RegistryTransferOwnership ==
    \E s \in Sender, newOwner \in Account \ {Deployer} :
        /\ Len(registry.events) < MaxEvents
        /\ registry' = registryTransferOwnership(s, newOwner)
        /\ lastCall' =
            [op |-> "registry.transferOwnership",
             err |-> registryTransferOwnershipError(s, newOwner)]
        /\ UNCHANGED <<chain, now, attested, mempool, signer, sdkCall, sent>>

RegistryRenounceOwnership ==
    \E s \in Sender :
        /\ Len(registry.events) < MaxEvents
        /\ registry' = registryRenounceOwnership(s)
        /\ lastCall' =
            [op |-> "registry.renounceOwnership",
             err |-> IF s # registry.owner THEN "Ownable: caller is not the owner"
                     ELSE OK]
        /\ UNCHANGED <<chain, now, attested, mempool, signer, sdkCall, sent>>

\* generateSampleContribution's proof, as generateProof returns it.
SampleProof ==
    [proof |-> [pi_a |-> G1, pi_b |-> G2, pi_c |-> G1],
     publicSignals |-> <<<<"1">>, <<"x">>, <<"1", "1">>>>]

\* ------------------------------------------------------------------------
\* The SDK's proof generation and submission.

\* validateContribution: the message of the ValidationError it throws, or OK.
validateContribution(contribution) ==
    LET metrics == contribution.qualityMetrics
    IN  IF Len(contribution.content) = 0 THEN "Knowledge content cannot be empty"
        ELSE IF Len(contribution.culturalContext) = 0
             THEN "Cultural context cannot be empty"
        ELSE IF Len(contribution.contributorIdentity) = 0
             THEN "Contributor identity cannot be empty"
        ELSE IF metrics.authenticity < 0 \/ metrics.authenticity > 100
             THEN "Authenticity score must be between 0 and 100"
        ELSE IF metrics.completeness < 0 \/ metrics.completeness > 100
             THEN "Completeness score must be between 0 and 100"
        ELSE IF metrics.accuracy < 0 \/ metrics.accuracy > 100
             THEN "Accuracy score must be between 0 and 100"
        ELSE IF metrics.culturalSignificance < 0 \/ metrics.culturalSignificance > 100
             THEN "Cultural significance score must be between 0 and 100"
        ELSE OK

\* validateParams: the message of the ValidationError it throws, or OK.
validateParams(params) ==
    IF Len(params.contributionHash) # 66 THEN "Invalid contribution hash format"
    ELSE IF Len(params.culturalContext) # 66
         THEN "Invalid cultural context hash format"
    ELSE IF params.qualityThreshold < 0 \/ params.qualityThreshold > 100
         THEN "Quality threshold must be between 0 and 100"
    ELSE OK

\* What the validations of generateProof throw (lines 189-190), in their
\* order.
generateProofCause(contribution, params) ==
    IF validateContribution(contribution) # OK
    THEN [class |-> "ValidationError", message |-> validateContribution(contribution)]
    ELSE IF validateParams(params) # OK
    THEN [class |-> "ValidationError", message |-> validateParams(params)]
    ELSE [class |-> "", message |-> OK]

\* generateSampleContribution, and the explored variations of it.
SampleContribution ==
    [content |-> <<"x">>, culturalContext |-> <<"x">>,
     contributorIdentity |-> <<"1">>, contextDetails |-> <<"1">>,
     culturalCredentials |-> <<"-">>,
     qualityMetrics |-> [authenticity |-> 95, completeness |-> 87,
                         accuracy |-> 92, culturalSignificance |-> 98]]

Contribution ==
    {SampleContribution,
     [SampleContribution EXCEPT !.content = <<>>],
     [SampleContribution EXCEPT !.culturalContext = <<>>],
     [SampleContribution EXCEPT !.contributorIdentity = <<>>],
     [SampleContribution EXCEPT !.content = <<"x", "1">>],
     [SampleContribution EXCEPT !.qualityMetrics.authenticity = 0,
                                !.qualityMetrics.accuracy = 100]}
    \cup {[SampleContribution EXCEPT !.qualityMetrics.authenticity = n] : n \in {0 - 1, 101}}
    \cup {[SampleContribution EXCEPT !.qualityMetrics.completeness = n] : n \in {0 - 1, 101}}
    \cup {[SampleContribution EXCEPT !.qualityMetrics.accuracy = n] : n \in {0 - 1, 101}}
    \cup {[SampleContribution EXCEPT !.qualityMetrics.culturalSignificance = n] :
            n \in {0 - 1, 101}}

\* A hash string: 0x and its digits, n characters in all.
HashString(n) == [i \in 1..n |-> IF i = 2 THEN "x" ELSE "0"]

SampleParams ==
    [contributionHash |-> HashString(66), culturalContext |-> HashString(66),
     qualityThreshold |-> 80, expectedAttributes |-> <<"0", "x", "1">>]

Params ==
    {SampleParams,
     [SampleParams EXCEPT !.contributionHash = HashString(65)],
     [SampleParams EXCEPT !.contributionHash = <<>>],
     [SampleParams EXCEPT !.culturalContext = HashString(64)],
     [SampleParams EXCEPT !.qualityThreshold = 101]}

\* What snarkjs.groth16.fullProve may do: produce a proof, or throw.
Prover == {"prove", "throw"}

\* ethers.keccak256(ethers.toUtf8Bytes(text)): one non-zero bytes32 per
\* string, the k-th explored string going to k and every other string to a
\* number of its own (the hash is taken to be free of collisions).
KeccakTable == <<<<"x">>, <<"x", "1">>>>

\* The number of a string, no two strings sharing one.
RECURSIVE TextCode(_)
TextCode(text) ==
    IF text = <<>> THEN 0
    ELSE TextCode(SubSeq(text, 1, Len(text) - 1)) * (Cardinality(Char) + 1)
            + (CASE text[Len(text)] = "1" -> 1 [] text[Len(text)] = "-" -> 2
                 [] text[Len(text)] = "x" -> 3)

keccak256(text) ==
    IF \E k \in 1..Len(KeccakTable) : KeccakTable[k] = text
    THEN CHOOSE k \in 1..Len(KeccakTable) : KeccakTable[k] = text
    ELSE Len(KeccakTable) + 1 + 2 * TextCode(text)

\* ethers.toUtf8Bytes(str)
toUtf8Bytes(str) ==
    [i \in DOMAIN str |->
        CASE str[i] = "1" -> 49 [] str[i] = "-" -> 45 [] str[i] = "x" -> 120]

\* stringToFieldArray: the bytes of the string, then zeros, maxLength in all.
stringToFieldArray(str, maxLength) ==
    [i \in 1..maxLength |-> IF i <= Len(str) THEN toUtf8Bytes(str)[i] ELSE 0]

\* prepareCircuitInputs: the public inputs from the parameters, the private
\* ones from the contribution (stringToField is keccak256; maxKnowledgeLength
\* and maxContextLength are the length of the longest explored string).
prepareCircuitInputs(contribution, params) ==
    [contributionHash |-> params.contributionHash,
     culturalContext |-> params.culturalContext,
     qualityThreshold |-> params.qualityThreshold,
     expectedAttributes |-> params.expectedAttributes,
     knowledgeContent |-> stringToFieldArray(contribution.content, MaxText),
     contributorIdentity |-> keccak256(contribution.contributorIdentity),
     contextDetails |-> stringToFieldArray(contribution.contextDetails, MaxText),
     qualityMetrics |-> <<contribution.qualityMetrics.authenticity,
                          contribution.qualityMetrics.completeness,
                          contribution.qualityMetrics.accuracy,
                          contribution.qualityMetrics.culturalSignificance>>,
     culturalCredentials |-> keccak256(contribution.culturalCredentials)]

\* async generateProof(contribution, params), called: the validations run
\* and, when one throws, the catch of line 211 rejects the call with a
\* CircuitError at once; else prepareCircuitInputs reads the contribution
\* and the parameters and the call is suspended at line 193.
generateProof(i, contribution, params) ==
    /\ sdkCall[i].pc = "done"
    /\ LET cause == generateProofCause(contribution, params)
       IN  sdkCall' =
            [sdkCall EXCEPT ![i] =
                [op |-> "generateProof",
                 pc |-> IF cause.class # "" THEN "done" ELSE "193",
                 contribution |-> contribution, params |-> params,
                 proof |-> NoValue, validated |-> contribution,
                 circuitInputs |-> IF cause.class # "" THEN NoValue
                                   ELSE prepareCircuitInputs(contribution, params),
                 thrown |-> IF cause.class # "" THEN "CircuitError" ELSE "",
                 message |-> <<"Failed to generate proof: ", cause.message>>,
                 value |-> NoValue]]
    /\ UNCHANGED <<chain, now, attested, lastCall, mempool, signer, registry, sent>>

\* generateProof resumed at line 193: snarkjs.groth16.fullProve is called
\* with the inputs prepared at the call (line 196).
generateProofResume193(i) ==
    /\ sdkCall[i].op = "generateProof" /\ sdkCall[i].pc = "193"
    /\ sdkCall' = [sdkCall EXCEPT ![i].pc = "196"]
    /\ UNCHANGED <<chain, now, attested, lastCall, mempool, signer, registry, sent>>

\* generateProof resumed at line 196 with what fullProve made of the inputs:
\* the proof (202-209), or the exception wrapped in a CircuitError (211-213).
generateProofResume196(i, prover) ==
    /\ sdkCall[i].op = "generateProof" /\ sdkCall[i].pc = "196"
    /\ sdkCall' =
        [sdkCall EXCEPT
            ![i].pc = "done",
            ![i].thrown = IF prover = "throw" THEN "CircuitError" ELSE "",
            ![i].message = IF prover = "throw"
                           THEN <<"Failed to generate proof: ", "fullProve failed">>
                           ELSE @,
            ![i].value = IF prover = "throw" THEN NoValue ELSE SampleProof]
    /\ UNCHANGED <<chain, now, attested, lastCall, mempool, signer, registry, sent>>

\* generateContributionHash: the content and the identity, joined.
generateContributionHash(contribution) ==
    keccak256(contribution.content \o contribution.contributorIdentity)

\* generateCulturalContextHash: the context and its details, joined.
generateCulturalContextHash(context, details) == keccak256(context \o details)

\* What the provider may do with the transaction: send it or fail to, and
\* hand out the receipt once it is mined or fail to.
Network == {"sent", "sendFails", "mined", "waitFails"}

\* What receipt.gasUsed is: an object with toNumber (the BigNumber of ethers
\* 5, and of the documented tests), or a bigint, which has none (ethers 6).
GasUsed == {"BigNumber", "bigint"}

SubmitFailure(message) ==
    [success |-> FALSE, transactionHash |-> <<>>, blockNumber |-> 0, gasUsed |-> 0,
     error |-> message]

\* submitContribution reporting success as soon as the transaction is sent.
submitResultOptimistic(connected, err, network, receipt) ==
    IF connected = 0
    THEN SubmitFailure("Signer not connected. Call connectSigner() first.")
    ELSE IF network = "sendFails" THEN SubmitFailure("network error")
    ELSE IF err # OK THEN SubmitFailure(err)
    ELSE [success |-> TRUE, transactionHash |-> receipt.hash,
          blockNumber |-> receipt.blockNumber, gasUsed |-> 1]

\* What the SDK's submitContribution resolves to: the receipt's data (lines
\* 294-299), or the message of whatever was thrown in its try block
\* (301-309): the ContractError of line 273, the provider's error, the
\* contract's revert, or the TypeError of line 298.
submitResult(connected, err, network, receipt) ==
    IF connected = 0
    THEN SubmitFailure("Signer not connected. Call connectSigner() first.")
    ELSE IF network = "sendFails" THEN SubmitFailure("network error")
    ELSE IF err # OK THEN SubmitFailure(err)
    ELSE IF network = "waitFails" THEN SubmitFailure("network error")
    ELSE IF receipt.gasUsed = "bigint"
    THEN SubmitFailure("receipt.gasUsed.toNumber is not a function")
    ELSE [success |-> TRUE, transactionHash |-> receipt.hash,
          blockNumber |-> receipt.blockNumber, gasUsed |-> 1]

\* async submitContribution(contribution, proof), called: without a signer
\* the ContractError of line 273 is caught and the call resolves at once;
\* with one, generateContributionHash reads the contribution and the call is
\* suspended at line 277.
sdkSubmitContribution(i, contribution, proof) ==
    /\ sdkCall[i].pc = "done"
    /\ sdkCall' =
        [sdkCall EXCEPT ![i] =
            [op |-> "sdk.submitContribution",
             pc |-> IF signer = 0 THEN "done" ELSE "277",
             contribution |-> contribution, proof |-> proof, params |-> NoValue,
             signer |-> signer,
             contributionHash |-> IF signer = 0 THEN 0
                                  ELSE generateContributionHash(contribution),
             culturalContextHash |-> 0, attributionProof |-> 0,
             from |-> 0, tx |-> 0, network |-> "", err |-> OK, gasUsed |-> "",
             thrown |-> "",
             value |-> IF signer = 0 THEN submitResult(0, OK, "", NoValue)
                       ELSE NoValue]]
    /\ UNCHANGED <<chain, now, attested, lastCall, mempool, signer, registry, sent>>

\* submitContribution resumed at line 277: generateCulturalContextHash reads
\* the context and its details as they are now (line 280).
sdkSubmitResume277(i) ==
    /\ sdkCall[i].op = "sdk.submitContribution" /\ sdkCall[i].pc = "277"
    /\ sdkCall' =
        [sdkCall EXCEPT
            ![i].pc = "280",
            ![i].culturalContextHash =
                generateCulturalContextHash(sdkCall[i].contribution.culturalContext,
                                            sdkCall[i].contribution.contextDetails)]
    /\ UNCHANGED <<chain, now, attested, lastCall, mempool, signer, registry, sent>>

\* submitContribution resumed at line 280: the contract's method is called
\* (line 286) with public signal 1 as it is now, on the contract bound to the
\* signer connected last, and the call is suspended until the method's
\* promise settles.
sdkSubmitResume280(i) ==
    /\ sdkCall[i].op = "sdk.submitContribution" /\ sdkCall[i].pc = "280"
    /\ sdkCall' =
        [sdkCall EXCEPT
            ![i].pc = "286", ![i].from = signer,
            ![i].attributionProof = At(sdkCall[i].proof.publicSignals, 1)]
    /\ UNCHANGED <<chain, now, attested, lastCall, mempool, signer, registry, sent>>

\* The promise of the contract's method settles (ethers, behind line 286):
\* the provider fails to send the transaction, or the gas estimate meets the
\* revert the contract would make now, or the transaction is sent.
sdkTransactionSent(i, network) ==
    /\ sdkCall[i].op = "sdk.submitContribution" /\ sdkCall[i].pc = "286"
    /\ sdkCall[i].network = ""
    /\ network \in {"sent", "sendFails"}
    /\ LET call == sdkCall[i]
           err  == IF network = "sendFails" THEN OK
                   ELSE submitContributionError(call.from, call.contributionHash,
                                                call.culturalContextHash,
                                                call.attributionProof)
           ok   == network = "sent" /\ err = OK
       IN  /\ ok => Len(sent) < MaxSent
           /\ sent' = IF ok
                      THEN Append(sent,
                            [from |-> call.from,
                             contributionHash |-> call.contributionHash,
                             culturalContextHash |-> call.culturalContextHash,
                             attributionProof |-> call.attributionProof,
                             status |-> "pending", blockNumber |-> 0])
                      ELSE sent
           /\ sdkCall' = [sdkCall EXCEPT ![i].network = network, ![i].err = err,
                                         ![i].tx = IF ok THEN Len(sent) + 1 ELSE 0]
    /\ UNCHANGED <<chain, now, attested, lastCall, mempool, signer, registry>>

\* A transaction sent through the SDK is mined, whether the call that sent
\* it is still waiting or has returned: the contract runs its
\* submitContribution as the state is now, and reverts if it must. The
\* transactions of one account are mined in the order they were sent in.
sdkTransactionMined(k) ==
    /\ k \in DOMAIN sent /\ sent[k].status = "pending"
    /\ \A j \in 1..(k - 1) :
            sent[j].from = sent[k].from => sent[j].status # "pending"
    /\ LET err == submitContributionError(sent[k].from, sent[k].contributionHash,
                                          sent[k].culturalContextHash,
                                          sent[k].attributionProof)
       IN  /\ submitContribution(sent[k].from, sent[k].contributionHash,
                                 sent[k].culturalContextHash,
                                 sent[k].attributionProof)
           /\ sent' = [sent EXCEPT
                         ![k].status = IF err = OK THEN "mined" ELSE "reverted",
                         ![k].blockNumber = now]
    /\ UNCHANGED <<attested, lastCall, mempool, signer, registry, sdkCall>>

\* submitContribution resumed at line 286: with the rejection of the
\* method's promise, which the catch of line 301 turns into the result, or
\* with the transaction sent, on which tx.wait() is called (line 292).
sdkSubmitResume286(i) ==
    /\ sdkCall[i].op = "sdk.submitContribution" /\ sdkCall[i].pc = "286"
    /\ sdkCall[i].network # ""
    /\ sdkCall' =
        [sdkCall EXCEPT
            ![i].pc = IF sdkCall[i].tx = 0 THEN "done" ELSE "292",
            ![i].value = IF sdkCall[i].tx = 0
                         THEN submitResult(sdkCall[i].from, sdkCall[i].err,
                                           sdkCall[i].network, NoValue)
                         ELSE NoValue]
    /\ UNCHANGED <<chain, now, attested, lastCall, mempool, signer, registry, sent>>

\* submitContribution resumed at line 292: the provider fails to hand out
\* the receipt, or the transaction is mined and tx.wait() throws for a
\* reverted one and hands out the receipt of any other.
sdkSubmitResume292(i, network, gasUsed) ==
    /\ sdkCall[i].op = "sdk.submitContribution" /\ sdkCall[i].pc = "292"
    /\ network \in {"mined", "waitFails"}
    /\ network = "mined" => sent[sdkCall[i].tx].status # "pending"
    /\ LET tx      == sent[sdkCall[i].tx]
           err     == IF network = "mined" /\ tx.status = "reverted"
                      THEN "transaction execution reverted" ELSE OK
           receipt == [hash |-> <<tx.from, tx.contributionHash, sdkCall[i].tx>>,
                       blockNumber |-> tx.blockNumber, gasUsed |-> gasUsed]
       IN  sdkCall' =
            [sdkCall EXCEPT
                ![i].pc = "done", ![i].network = network, ![i].err = err,
                ![i].gasUsed = IF network = "mined" /\ err = OK THEN gasUsed ELSE "",
                ![i].value = submitResult(sdkCall[i].from, err, network, receipt)]
    /\ UNCHANGED <<chain, now, attested, lastCall, mempool, signer, registry, sent>>

\* The gateway and the single-party registry at work: a proof is handed to
\* verifyProof, its caller replaces the public signals while the call is
\* suspended, and the registry is called meanwhile, its ownership handed on
\* or given up among the calls.
GatewaySpec ==
    Init /\ [][\/ \E i \in DOMAIN sdkCall, s0 \in {<<"1">>, <<"0">>} :
                    verifyProof(i, [SampleProof EXCEPT !.publicSignals[1] = s0],
                                SampleParams)
               \/ \E i \in DOMAIN sdkCall : verifyProofResume228(i)
               \/ \E i \in DOMAIN sdkCall, check \in PairingCheck :
                    verifyProofResume231(i, check)
               \/ \E i \in DOMAIN sdkCall, s0 \in {<<"1">>, <<"0">>} :
                    callerMutates(i, NoValue,
                                  [sdkCall[i].proof EXCEPT !.publicSignals[1] = s0])
               \/ RegistryVerify
               \/ RegistryAddAuthority
               \/ RegistryDistribute
               \/ RegistryTransferOwnership
               \/ RegistryRenounceOwnership]_vars

\* The gateway alone: every explored proof with every explored vector of
\* public signals, replaced by any other while the call is suspended.
VerifySpec ==
    Init /\ [][\/ \E i \in DOMAIN sdkCall, proof \in ProofObject,
                     publicSignals \in PublicSignals :
                    verifyProof(i, [proof |-> proof, publicSignals |-> publicSignals],
                                SampleParams)
               \/ \E i \in DOMAIN sdkCall : verifyProofResume228(i)
               \/ \E i \in DOMAIN sdkCall, check \in PairingCheck :
                    verifyProofResume231(i, check)
               \/ \E i \in DOMAIN sdkCall, publicSignals \in PublicSignals :
                    callerMutates(i, NoValue,
                        [sdkCall[i].proof EXCEPT !.publicSignals = publicSignals])
               \/ \E s \in Sender : connectSigner(s)]_vars

\* The SDK at work on the consensus contract: signers are connected, proofs
\* generated and contributions submitted; the caller changes the
\* contribution while its call is suspended, the transactions sent are mined
\* sooner or later, and the other accounts submit to the contract themselves.
SdkSpec ==
    Init /\ [][\/ \E s \in Sender : connectSigner(s)
               \/ \E i \in DOMAIN sdkCall, contribution \in Contribution,
                     params \in Params :
                    generateProof(i, contribution, params)
               \/ \E i \in DOMAIN sdkCall : generateProofResume193(i)
               \/ \E i \in DOMAIN sdkCall, prover \in Prover :
                    generateProofResume196(i, prover)
               \/ \E i \in DOMAIN sdkCall,
                     contribution \in {SampleContribution,
                        [SampleContribution EXCEPT !.qualityMetrics.authenticity = 101]},
                     ap \in Word :
                    sdkSubmitContribution(i, contribution,
                        [SampleProof EXCEPT !.publicSignals[2] = ap])
               \/ \E i \in DOMAIN sdkCall : sdkSubmitResume277(i)
               \/ \E i \in DOMAIN sdkCall : sdkSubmitResume280(i)
               \/ \E i \in DOMAIN sdkCall, network \in Network :
                    sdkTransactionSent(i, network)
               \/ \E i \in DOMAIN sdkCall : sdkSubmitResume286(i)
               \/ \E k \in DOMAIN sent : sdkTransactionMined(k)
               \/ \E i \in DOMAIN sdkCall, network \in Network, gasUsed \in GasUsed :
                    sdkSubmitResume292(i, network, gasUsed)
               \/ \E i \in DOMAIN sdkCall, details \in {<<>>, <<"1">>} :
                    callerMutates(i,
                        [sdkCall[i].contribution EXCEPT !.contextDetails = details],
                        sdkCall[i].proof)
               \/ \E i \in DOMAIN sdkCall, ap \in Word :
                    /\ sdkCall[i].op = "sdk.submitContribution"
                    /\ callerMutates(i, sdkCall[i].contribution,
                        [sdkCall[i].proof EXCEPT !.publicSignals[2] = ap])
               \/ \E s \in Sender :
                    /\ submitContribution(s, generateContributionHash(SampleContribution),
                                          generateCulturalContextHash(<<"x">>, <<"1">>), 1)
                    /\ UNCHANGED <<attested, lastCall, mempool, signer, registry, sdkCall, sent>>]_vars

\* ------------------------------------------------------------------------
\* The recorded votes of a contribution, as the finalization rule counts them.
VotesOf(h, v) == {i \in DOMAIN votes[h] : votes[h][i].verifier = v}
Yes(h)        == Cardinality({i \in DOMAIN votes[h] : votes[h][i].isValid})
No(h)         == Len(votes[h]) - Yes(h)
Terminal(h)   == contributions[h].status \in {"Verified", "Rejected", "Disputed"}
EventsNamed(h, name) ==
    {i \in DOMAIN contributionEvents[h] : contributionEvents[h][i].name = name}

\* C1: no verifier has more than one attestation recorded on a contribution.
C1_OneVotePerVerifier ==
    \A h \in Hash, v \in Address : Cardinality(VotesOf(h, v)) <= 1

\* C2: a Verified contribution has at least MIN_VERIFICATIONS yes votes and
\* more yes than no votes; a Rejected one has at least MIN_VERIFICATIONS no
\* votes and more no than yes votes.
C2_StatusReflectsMajority ==
    \A h \in Hash :
        /\ contributions[h].status = "Verified" =>
                Yes(h) >= MIN_VERIFICATIONS /\ Yes(h) > No(h)
        /\ contributions[h].status = "Rejected" =>
                No(h) >= MIN_VERIFICATIONS /\ No(h) > Yes(h)

\* C3: whenever the recorded votes of a contribution hold at least
\* MIN_VERIFICATIONS yes votes and more yes than no votes, the contribution
\* is Verified; with at least MIN_VERIFICATIONS no votes and more no than
\* yes votes, it is Rejected.
C3_MajorityFinalizes ==
    \A h \in Hash :
        /\ (Yes(h) >= MIN_VERIFICATIONS /\ Yes(h) > No(h)) =>
                contributions[h].status = "Verified"
        /\ (No(h) >= MIN_VERIFICATIONS /\ No(h) > Yes(h)) =>
                contributions[h].status = "Rejected"

C3_Witness ==
    \E h \in Hash :
        /\ Len(votes[h]) >= MIN_VERIFICATIONS
        /\ Yes(h) >= MIN_VERIFICATIONS /\ Yes(h) > No(h)
        /\ contributions[h].status = "Verified"

\* The isValid flags of the scenario's attest calls, counted.
Attested(flag) == Cardinality({i \in DOMAIN attested : attested[i] = flag})

\* C4: once all MAX_VERIFICATIONS panel members have attested, half of them
\* with isValid = TRUE and half with isValid = FALSE, the contribution is
\* Disputed.
C4_SplitPanelIsDisputed ==
    (/\ Len(attested) = MAX_VERIFICATIONS
     /\ Attested(TRUE) = Attested(FALSE))
        => contributions[ScenarioHash].status = "Disputed"

\* C5: on a contribution that is Verified, Rejected or Disputed every attest
\* fails, with the "not in pending status" error when the caller is an active
\* verifier giving a non-zero proof, and no step changes its record, its
\* votes or, if it is such an attest, the caller's verificationCount.
C5_TerminalRejectsAttest ==
    /\ [](\A h \in Hash, s \in Address, p \in Word, v \in BOOLEAN :
            Terminal(h) =>
                /\ verifyContributionError(s, h, p, v) # OK
                /\ (onlyVerifier(s) /\ p # 0) =>
                        verifyContributionError(s, h, p, v) = NotPending)
    /\ [][\A h \in Hash :
            Terminal(h) =>
                /\ contributions'[h] = contributions[h]
                /\ votes'[h] = votes[h]
                /\ contributionEvents'[h] = contributionEvents[h]
                /\ \A s \in Address :
                        verifiers'[s].verificationCount # verifiers[s].verificationCount
                            => ~\E p \in Word, v \in BOOLEAN :
                                    verifyContribution(s, h, p, v)]_vars

C5_Witness ==
    \E h \in Hash, s \in Sender :
        /\ Terminal(h)
        /\ onlyVerifier(s)
        /\ verifyContributionError(s, h, 1, TRUE) = NotPending
        /\ verifyContributionError(s, h, 1, FALSE) = NotPending

\* C6: a contribution has one StatusChanged event when its status is no
\* longer Pending and none while it is Pending: never more than one.
C6_OneStatusChanged ==
    \A h \in Hash :
        Cardinality(EventsNamed(h, "StatusChanged")) =
            (IF contributions[h].status # "Pending" THEN 1 ELSE 0)

C6_Witness ==
    \E h \in Hash :
        /\ contributions[h].status # "Pending"
        /\ Cardinality(EventsNamed(h, "StatusChanged")) = 1
        /\ Cardinality(EventsNamed(h, "ContributionVerified")) = MIN_VERIFICATIONS

\* C7: a contribution is created Pending, and a status only ever moves from
\* Pending to Verified, Rejected or Disputed, or from Disputed to Verified or
\* Rejected.
C7_StatusMonotone ==
    /\ \A h \in Hash : contributions[h].status = "Pending"
    /\ [][\A h \in Hash :
            /\ (~contributionExists(h) /\ contributionExists(h)') =>
                    contributions'[h].status = "Pending"
            /\ \/ contributions'[h].status = contributions[h].status
               \/ /\ contributions[h].status = "Pending"
                  /\ contributions'[h].status \in {"Verified", "Rejected", "Disputed"}
               \/ /\ contributions[h].status = "Disputed"
                  /\ contributions'[h].status \in {"Verified", "Rejected"}]_vars

C7_Witness ==
    \E h \in Hash :
        /\ contributionExists(h)
        /\ contributions[h].status = "Rejected"
        /\ now > contributions[h].timestamp

\* C8: a commitment that has been submitted cannot be submitted again: every
\* submit of it fails, with the "already exists" error when its
\* culturalContext and attributionProof are non-zero (a zero one fails the
\* input validation before), and no step changes the stored contributor,
\* culturalContext, attributionProof or timestamp, nor do a submit's steps
\* change the status or the vote count.
C8_DuplicateCommitmentRejected ==
    /\ [](\A h \in Hash, s \in Address, ctx \in Word, ap \in Word :
            contributionExists(h) =>
                /\ submitContributionError(s, h, ctx, ap) # OK
                /\ (ctx # 0 /\ ap # 0) =>
                        submitContributionError(s, h, ctx, ap) = AlreadyExists)
    /\ [][\A h \in Hash :
            contributionExists(h) =>
                /\ contributions'[h].contributionHash = contributions[h].contributionHash
                /\ contributions'[h].contributor = contributions[h].contributor
                /\ contributions'[h].culturalContext = contributions[h].culturalContext
                /\ contributions'[h].attributionProof = contributions[h].attributionProof
                /\ contributions'[h].timestamp = contributions[h].timestamp
                /\ contributions'[h] # contributions[h] =>
                        ~\E s \in Address, ctx \in Word, ap \in Word :
                            submitContribution(s, h, ctx, ap)]_vars

C8_Witness ==
    \E h \in Hash, s \in Sender :
        /\ contributionExists(h)
        /\ s # contributions[h].contributor
        /\ now > contributions[h].timestamp
        /\ contributions[h].verificationCount > 0
        /\ submitContributionError(s, h, 1, 1) = AlreadyExists

\* C9: the vote count of a contribution is the number of votes recorded on
\* it and never exceeds MAX_VERIFICATIONS, however many verifiers attest.
C9_BoundedVotes ==
    \A h \in Hash :
        /\ contributions[h].verificationCount = Len(votes[h])
        /\ contributions[h].verificationCount <= MAX_VERIFICATIONS

C9_Witness ==
    /\ Len(attested) > MAX_VERIFICATIONS
    /\ contributions[ScenarioHash].verificationCount = MIN_VERIFICATIONS
    /\ Terminal(ScenarioHash)

\* C10: when the first three panel members have each attested isValid = TRUE
\* on the fresh contribution, it is Pending after the first and after the
\* second call and Verified after the third.
C10_ThreeValidAttestations ==
    (\A i \in DOMAIN attested : i <= MIN_VERIFICATIONS => attested[i]) =>
        /\ Len(attested) \in {1, 2} => contributions[ScenarioHash].status = "Pending"
        /\ Len(attested) = MIN_VERIFICATIONS =>
                contributions[ScenarioHash].status = "Verified"

C10_Witness ==
    /\ Len(attested) = MIN_VERIFICATIONS
    /\ \A i \in DOMAIN attested : attested[i]
    /\ Len(votes[ScenarioHash]) = MIN_VERIFICATIONS
    /\ \A i, j \in DOMAIN votes[ScenarioHash] :
            i # j => votes[ScenarioHash][i].verifier # votes[ScenarioHash][j].verifier
    /\ \A i \in DOMAIN votes[ScenarioHash] :
            verifiers[votes[ScenarioHash][i].verifier].isActive
    /\ contributions[ScenarioHash].status = "Verified"

\* The places of a verifier in verifierList: one per registration.
Listed(v) == {i \in DOMAIN verifierList : verifierList[i] = v}

\* A verifier that has been deactivated: registered and inactive now, or
\* registered again since (only an inactive verifier can be registered).
WasDeactivated(v) ==
    \/ Listed(v) # {} /\ ~verifiers[v].isActive
    \/ Cardinality(Listed(v)) >= 2

\* C11: an attest by a caller that is not an active verifier reverts with the
\* "not active verifier" error and leaves every contribution record, every
\* recorded vote and every verifier record as they were.
C11_InactiveCallerRejected ==
    [][lastCall'.op = "verifyContribution" =>
        \A s \in Sender, h \in Explored, p \in Word, v \in BOOLEAN :
            (/\ ~verifiers[s].isActive
             /\ verifyContribution(s, h, p, v)
             /\ Called("verifyContribution", verifyContributionError(s, h, p, v)))
                => /\ lastCall'.err = NotActiveVerifier
                   /\ contributions' = contributions
                   /\ votes' = votes
                   /\ verifiers' = verifiers]_vars

C11_Witness ==
    /\ lastCall = [op |-> "verifyContribution", err |-> NotActiveVerifier]
    /\ \A s \in Sender : WasDeactivated(s) /\ ~verifiers[s].isActive
    /\ \E h \in Explored :
            /\ contributionExists(h)
            /\ contributions[h].status = "Pending"
            /\ contributions[h].verificationCount > 0

\* C12 as claimed: once a verifier has been deactivated, no step ever records
\* another vote of that verifier.
C12_NoVoteAfterDeactivation ==
    [][\A v \in Sender, h \in Hash :
            WasDeactivated(v) => VotesOf(h, v)' = VotesOf(h, v)]_vars

\* C12 as amended: while a verifier is inactive, that is from its
\* deactivation until the owner registers it again, no step records a vote
\* of that verifier or raises its verificationCount.
C12_NoVoteWhileInactive ==
    [][\A v \in Address :
            ~verifiers[v].isActive =>
                /\ \A h \in Hash : VotesOf(h, v)' = VotesOf(h, v)
                /\ verifiers'[v].verificationCount <= verifiers[v].verificationCount]_vars

C12_Witness ==
    \E v \in Sender, h \in Hash :
        /\ WasDeactivated(v) /\ ~verifiers[v].isActive
        /\ VotesOf(h, v) # {}
        /\ contributions[h].status = "Pending"

\* C13: a register or deactivate call by anyone but the current owner, the
\* former owner after a transfer of ownership included, reverts with the
\* "not owner" error and changes nothing; a register or deactivate call that
\* succeeds is a call by the current owner.
C13_OnlyOwnerGoverns ==
    [][lastCall'.op \in {"registerVerifier", "deactivateVerifier"} =>
        /\ \A s \in Sender, v \in Account, q \in Word :
            (/\ s # owner
             /\ \/ /\ registerVerifier(s, v, q)
                   /\ Called("registerVerifier", registerVerifierError(s, v, q))
                \/ /\ deactivateVerifier(s, v)
                   /\ Called("deactivateVerifier", deactivateVerifierError(s, v)))
                => lastCall'.err = NotOwner /\ UNCHANGED chain
        /\ lastCall'.err = OK =>
                \E v \in Account, q \in Word :
                    \/ lastCall'.op = "registerVerifier" /\ registerVerifier(owner, v, q)
                    \/ lastCall'.op = "deactivateVerifier" /\ deactivateVerifier(owner, v)]_vars

\* The last call is a register call of the deployer, made after the deployer
\* gave the ownership away.
C13_Witness ==
    /\ owner # Deployer
    /\ lastCall = [op |-> "registerVerifier", err |-> NotOwner]
    /\ \E v \in Sender : verifiers[v].isActive

\* C14: a call that fails, of whichever function, leaves the contributions,
\* the contributors' lists, the verifiers, the verifier list, the owner and
\* the event logs as they were.
C14_FailureChangesNothing ==
    [][lastCall'.err # OK => UNCHANGED chain]_vars

C14_Witness ==
    /\ lastCall.err # OK
    /\ lastCall.op = "transferOwnership"
    /\ \E h \in Explored : contributions[h].verificationCount > 0
    /\ Len(verifierEvents) > 0

\* C15: a submit with a zero hash, a zero cultural context or a zero
\* attribution proof reverts with the validation error of the first zero
\* argument, creates no contribution record and emits no event.
C15_ZeroArgumentRejected ==
    [][lastCall'.op = "submitContribution" =>
        \A s \in Sender, h \in Explored, ctx \in Word, ap \in Proof :
            (/\ h = 0 \/ ctx = 0 \/ ap = 0
             /\ submitContribution(s, h, ctx, ap)
             /\ Called("submitContribution", submitContributionError(s, h, ctx, ap)))
                => /\ lastCall'.err =
                        IF h = 0 THEN InvalidHash
                        ELSE IF ctx = 0 THEN InvalidContext ELSE InvalidAttribution
                   /\ contributions' = contributions
                   /\ contributorContributions' = contributorContributions
                   /\ contributionEvents' = contributionEvents]_vars

C15_Witness ==
    /\ lastCall = [op |-> "submitContribution", err |-> InvalidHash]
    /\ \E h \in Explored : contributionExists(h)
    /\ ~contributionExists(0)
    /\ contributionEvents[0] = <<>>

\* C16: a submit of a hash that has no record, with all three arguments
\* non-zero, succeeds whichever the attribution proof is: the record of the
\* hash is Pending with no vote, has the caller as contributor and the given
\* context and proof, and exactly one event, a ContributionSubmitted of that
\* hash, is emitted.
C16_SubmitCreatesPending ==
    [][lastCall'.op = "submitContribution" =>
        \A s \in Sender, h \in Explored, ctx \in Word, ap \in Proof :
            (/\ h # 0 /\ ctx # 0 /\ ap # 0
             /\ ~contributionExists(h)
             /\ submitContribution(s, h, ctx, ap)
             /\ Called("submitContribution", submitContributionError(s, h, ctx, ap)))
                => /\ lastCall'.err = OK
                   /\ contributions'[h].status = "Pending"
                   /\ contributions'[h].verificationCount = 0
                   /\ contributions'[h].contributor = s
                   /\ contributions'[h].culturalContext = ctx
                   /\ contributions'[h].attributionProof = ap
                   /\ \A g \in Hash \ {h} :
                        /\ contributions'[g] = contributions[g]
                        /\ contributionEvents'[g] = contributionEvents[g]
                   /\ Len(contributionEvents'[h]) = Len(contributionEvents[h]) + 1
                   /\ EventsNamed(h, "ContributionSubmitted")' =
                        {Len(contributionEvents'[h])}
                   /\ verifierEvents' = verifierEvents]_vars

C16_Witness ==
    /\ lastCall = [op |-> "submitContribution", err |-> OK]
    /\ \E h \in Explored :
            /\ contributions[h].status = "Pending"
            /\ contributions[h].verificationCount = 0
            /\ contributions[h].attributionProof = MaxWord + 1
            /\ Cardinality(EventsNamed(h, "ContributionSubmitted")) = 1

\* C17: a register call of the owner reverts and changes nothing when the
\* verifier is the zero address, the qualifications are zero or the verifier
\* is active; otherwise it succeeds and the verifier is active, with
\* verificationCount 0, reputationScore 500 and the given qualifications.
C17_RegisterByOwner ==
    [][lastCall'.op = "registerVerifier" =>
        \A v \in Account, q \in Word :
            (/\ registerVerifier(owner, v, q)
             /\ Called("registerVerifier", registerVerifierError(owner, v, q)))
                => IF v = 0 \/ q = 0 \/ verifiers[v].isActive
                   THEN /\ lastCall'.err \in
                                {InvalidVerifier, InvalidQualifications, AlreadyRegistered}
                        /\ UNCHANGED chain
                   ELSE /\ lastCall'.err = OK
                        /\ verifiers'[v] =
                                [isActive |-> TRUE, verificationCount |-> 0,
                                 reputationScore |-> 500, qualifications |-> q]
                        /\ \A w \in Address \ {v} : verifiers'[w] = verifiers[w]]_vars

\* The owner has just registered again a verifier that had attested before.
C17_Witness ==
    /\ lastCall = [op |-> "registerVerifier", err |-> OK]
    /\ \E v \in Sender :
            /\ Cardinality(Listed(v)) = 2
            /\ verifiers[v].isActive
            /\ verifiers[v].verificationCount = 0
            /\ \E h \in Explored : VotesOf(h, v) # {}

\* C18: a deactivate call of the owner reverts and changes nothing when the
\* verifier is not active; otherwise it succeeds and only clears the
\* verifier's isActive flag: its verificationCount, reputationScore and
\* qualifications, the other verifiers, the contributions and the recorded
\* votes are as before.
C18_DeactivateByOwner ==
    [][lastCall'.op = "deactivateVerifier" =>
        \A v \in Account :
            (/\ deactivateVerifier(owner, v)
             /\ Called("deactivateVerifier", deactivateVerifierError(owner, v)))
                => IF ~verifiers[v].isActive
                   THEN lastCall'.err = NotActive /\ UNCHANGED chain
                   ELSE /\ lastCall'.err = OK
                        /\ verifiers'[v] = [verifiers[v] EXCEPT !.isActive = FALSE]
                        /\ \A w \in Address \ {v} : verifiers'[w] = verifiers[w]
                        /\ contributions' = contributions
                        /\ votes' = votes
                        /\ verifierList' = verifierList]_vars

\* The owner has just deactivated a verifier that has attested.
C18_Witness ==
    /\ lastCall = [op |-> "deactivateVerifier", err |-> OK]
    /\ \E v \in Sender, h \in Explored :
            /\ ~verifiers[v].isActive
            /\ verifiers[v].verificationCount > 0
            /\ verifiers[v].reputationScore = NEUTRAL_REPUTATION
            /\ VotesOf(h, v) # {}
            /\ contributions[h].verificationCount > 0

\* The two transactions sent together have both been mined.
RaceOver == mempool.calls # {} /\ mempool.mined = mempool.calls

\* C19: two attestations by different active verifiers, sent together on a
\* contribution that is Pending with n votes, have the effect of one
\* running after the other: the first mined records vote n + 1, the other
\* one records vote n + 2, or is rejected when vote n + 1 was the third and
\* finalized the contribution; the ContributionVerified events carry the
\* counts n + 1 and n + 2, never one count twice, and at most one of the two
\* calls emits StatusChanged.
C19_RacingAttestsSerialize ==
    \A c1 \in mempool.calls, c2 \in mempool.calls :
        LET h    == c1.h
            n    == mempool.contributions[h].verificationCount
            more == IF n + 1 >= MIN_VERIFICATIONS THEN 1 ELSE 2
            verified == SelectSeq(contributionEvents[h],
                            LAMBDA e : e.name = "ContributionVerified")
        IN  (/\ RaceOver
             /\ c1.sender # c2.sender /\ c2.h = h
             /\ mempool.verifiers[c1.sender].isActive
             /\ mempool.verifiers[c2.sender].isActive
             /\ mempool.contributions[h].contributor # 0
             /\ mempool.contributions[h].status = "Pending")
                => /\ contributions[h].verificationCount = n + more
                   /\ Len(votes[h]) = n + more
                   /\ {votes[h][i].verifier : i \in (n + 1)..(n + more)}
                            \subseteq {c1.sender, c2.sender}
                   /\ more = 2 =>
                        {votes[h][i].verifier : i \in (n + 1)..(n + 2)}
                            = {c1.sender, c2.sender}
                   /\ Len(verified) = n + more
                   /\ \A i \in 1..Len(verified) : verified[i].verificationCount = i
                   /\ Cardinality(EventsNamed(h, "StatusChanged")) <= 1

\* Both verifiers attested on a contribution that had two votes: the one
\* mined first finalized it, the other one was rejected.
C19_Witness ==
    \E c1 \in mempool.calls, c2 \in mempool.calls :
        /\ RaceOver
        /\ c1.sender # c2.sender /\ c1.h = c2.h /\ c1.isValid # c2.isValid
        /\ mempool.verifiers[c1.sender].isActive
        /\ mempool.verifiers[c2.sender].isActive
        /\ mempool.contributions[c1.h].status = "Pending"
        /\ mempool.contributions[c1.h].verificationCount = MIN_VERIFICATIONS - 1
        /\ Terminal(c1.h)
        /\ Cardinality(EventsNamed(c1.h, "StatusChanged")) = 1

\* C20: two attestations by one active verifier, sent together on two
\* different Pending contributions, are both recorded, whichever is mined
\* first, and the verifier's verificationCount is 2 higher than it was.
C20_NoLostUpdate ==
    \A c1 \in mempool.calls, c2 \in mempool.calls :
        LET v == c1.sender
        IN  (/\ RaceOver
             /\ c2.sender = v /\ c1.h # c2.h
             /\ mempool.verifiers[v].isActive
             /\ \A c \in {c1, c2} :
                    /\ mempool.contributions[c.h].contributor # 0
                    /\ mempool.contributions[c.h].status = "Pending")
                => /\ verifiers[v].verificationCount =
                        mempool.verifiers[v].verificationCount + 2
                   /\ \A c \in {c1, c2} :
                        LET n == mempool.contributions[c.h].verificationCount
                        IN  /\ Len(votes[c.h]) = n + 1
                            /\ votes[c.h][n + 1] =
                                    [verifier |-> v, isValid |-> c.isValid]
                            /\ contributions[c.h].verificationCount = n + 1

C20_Witness ==
    \E c1 \in mempool.calls, c2 \in mempool.calls :
        /\ RaceOver
        /\ c1.sender = c2.sender /\ c1.h # c2.h
        /\ mempool.verifiers[c1.sender].isActive
        /\ mempool.verifiers[c1.sender].verificationCount > 0
        /\ \A c \in {c1, c2} : mempool.contributions[c.h].status = "Pending"
                                /\ mempool.contributions[c.h].contributor # 0
        /\ verifiers[c1.sender].verificationCount =
                mempool.verifiers[c1.sender].verificationCount + 2

\* C21: isContributionVerified answers true for a recorded hash whose status
\* is Verified and false for one that is Pending, Rejected or Disputed;
\* getContribution answers the record of a recorded hash; for a hash without
\* a record both revert with the "does not exist" error and return nothing;
\* and a read changes nothing of the contract's state.
C21_ViewsAnswer ==
    [][lastCall' # lastCall =>
        LET h == lastCall'.h
        IN  /\ UNCHANGED chain
            /\ contributions[h].contributor = 0 =>
                    lastCall'.err = DoesNotExist /\ lastCall'.ret = NoReturn
            /\ contributions[h].contributor # 0 =>
                    /\ lastCall'.err = OK
                    /\ lastCall'.op = "isContributionVerified" =>
                            /\ contributions[h].status = "Verified"
                                    => lastCall'.ret = [isVerified |-> TRUE]
                            /\ contributions[h].status \in {"Pending", "Rejected", "Disputed"}
                                    => lastCall'.ret = [isVerified |-> FALSE]
                    /\ lastCall'.op = "getContribution" =>
                            lastCall'.ret = contributions[h]]_vars

\* A Rejected contribution was read as not verified.
C21_Witness ==
    /\ lastCall.op = "isContributionVerified"
    /\ lastCall.h = ScenarioHash
    /\ lastCall.ret = [isVerified |-> FALSE]
    /\ contributions[ScenarioHash].status = "Rejected"

\* C22: the owner is the deployer at first and is never the zero address; a
\* transferOwnership call of the owner with a non-zero address makes that
\* address the owner, and a call of anyone else, or with the zero address,
\* reverts and leaves the owner as it was.
C22_OwnerNeverZero ==
    /\ owner = Deployer
    /\ [](owner # 0)
    /\ [][lastCall'.op = "transferOwnership" =>
            \A s \in Sender, a \in Account :
                (/\ transferOwnership(s, a)
                 /\ Called("transferOwnership", transferOwnershipError(s, a)))
                    => IF s = owner /\ a # 0
                       THEN lastCall'.err = OK /\ owner' = a
                       ELSE /\ lastCall'.err = (IF s # owner THEN NotOwner ELSE ZeroOwner)
                            /\ owner' = owner]_vars

\* The second owner has just tried to hand the ownership to the zero address.
C22_Witness ==
    /\ owner # Deployer
    /\ lastCall = [op |-> "transferOwnership", err |-> ZeroOwner]

\* C29: no step lowers the verificationCount of a verifier.
C29_VerifierCountMonotone ==
    [][\A v \in Address :
            verifiers'[v].verificationCount >= verifiers[v].verificationCount]_vars

\* C30: the record of a submitted contribution keeps its hash, cultural
\* context, contributor, attribution proof and timestamp for ever, and
\* changes at all only in a step that is a successful attestation on that
\* very contribution: a submit, an attestation on another contribution, a
\* registration, a deactivation, a transfer of ownership and the passage of
\* time leave it as it is.
C30_RecordFrame ==
    [][\A h \in Hash :
            contributions[h].contributor # 0 =>
                /\ contributions'[h].contributionHash = contributions[h].contributionHash
                /\ contributions'[h].culturalContext = contributions[h].culturalContext
                /\ contributions'[h].contributor = contributions[h].contributor
                /\ contributions'[h].attributionProof = contributions[h].attributionProof
                /\ contributions'[h].timestamp = contributions[h].timestamp
                /\ contributions'[h] # contributions[h] =>
                        /\ Len(votes'[h]) = Len(votes[h]) + 1
                        /\ \E s \in Sender, v \in BOOLEAN :
                                /\ verifyContributionError(s, h, 1, v) = OK
                                /\ verifyContribution(s, h, 1, v)]_vars

\* Two contributions of different contributors and blocks, with different
\* numbers of votes, after a deactivation and a transfer of ownership.
C30_Witness ==
    /\ owner # Deployer
    /\ WasDeactivated(FrameVerifier)
    /\ now > 0
    /\ \E h \in RaceHash, g \in RaceHash :
            /\ contributions[h].contributor # 0
            /\ contributions[g].contributor \notin {0, contributions[h].contributor}
            /\ contributions[h].timestamp < contributions[g].timestamp
            /\ contributions[h].status = "Pending"
            /\ contributions[h].verificationCount > 0
            /\ contributions[g].verificationCount > contributions[h].verificationCount

\* C23: every step of a verifyProof call, whatever the proof, whatever the
\* check makes of it and whatever the registry's callers have done in
\* between, leaves the consensus contract, the single-party registry and the
\* SDK's signer as they were; and a verifyContribution call on the
\* single-party registry with a proof its check rejects reverts, with the
\* "invalid proof" error when the other arguments are in order, and leaves
\* the registry's counter, contributions, hash-to-id map and events as they
\* were.
C23_FailedProofChangesNothing ==
    [][/\ \A i \in DOMAIN sdkCall :
            (sdkCall'[i] # sdkCall[i] /\ sdkCall'[i].op = "verifyProof")
                => UNCHANGED <<chain, registry, signer, lastCall, sent>>
       /\ (/\ lastCall'.op = "registry.verifyContribution"
           /\ lastCall' # lastCall
           /\ \/ lastCall'.proofA[1] = 0
              \/ lastCall'.proofB[1][1] = 0
              \/ lastCall'.proofC[1] = 0)
            => /\ lastCall'.err # OK
               /\ registry' = registry
               /\ UNCHANGED chain
               /\ (/\ lastCall'.h # 0 /\ lastCall'.ctx # 0
                   /\ registry.contributionHashToId[lastCall'.h] = 0)
                        => lastCall'.err = "Invalid zk-SNARK proof"]_vars

\* A rejected proof came in for a new hash, while a verifyProof call that
\* began on an empty registry was waiting for its check, when the registry
\* held a contribution that had been compensated and had been handed on to
\* another owner.
C23_Witness ==
    /\ lastCall.op = "registry.verifyContribution"
    /\ lastCall.err = "Invalid zk-SNARK proof"
    /\ registry.contributionIds = 1
    /\ registry.contributions[1].verified
    /\ registry.contributions[1].compensationAmount = 1
    /\ registry.contributionHashToId[lastCall.h] = 0
    /\ \E i \in DOMAIN sdkCall :
            sdkCall[i].op = "verifyProof" /\ sdkCall[i].pc = "231"

\* C24: verifyProof, given a proof whose pi_a, pi_b or pi_c has not the
\* number and size of elements of a proof, throws a ValidationError and does
\* not attempt the pairing check: groth16.verify is never handed the proof.
C24_MalformedProofRejectedEarly ==
    \A i \in DOMAIN sdkCall :
        (sdkCall[i].op = "verifyProof" /\ ~WellShaped(sdkCall[i].proof.proof))
            => /\ sdkCall[i].checked = NoValue
               /\ sdkCall[i].pc = "done" => sdkCall[i].thrown = "ValidationError"

\* C25: verifyProof resolves to verified false, attribution proof '' and
\* quality score 0 when the check rejects the proof; when the check accepts
\* it, verified says whether public signal 0 is '1', the attribution proof is
\* public signal 1 and the quality score is public signal 2 as parseInt reads
\* it, the public signals being those of the proof object when the check has
\* answered; and when the check throws, verifyProof throws a CircuitError.
C25_VerifyProofResult ==
    \A i \in DOMAIN sdkCall :
        (sdkCall[i].op = "verifyProof" /\ sdkCall[i].pc = "done") =>
            LET signals == sdkCall[i].proof.publicSignals
                value   == sdkCall[i].value
            IN  /\ sdkCall[i].check = "false" =>
                    /\ sdkCall[i].thrown = ""
                    /\ value = [verified |-> FALSE, attributionProof |-> <<>>,
                                qualityScore |-> Num(0)]
                /\ sdkCall[i].check = "true" =>
                    /\ sdkCall[i].thrown = ""
                    /\ value.verified = (Len(signals) > 0 /\ signals[1] = <<"1">>)
                    /\ value.attributionProof =
                            (IF Len(signals) > 1 THEN signals[2] ELSE Undefined)
                    /\ value.qualityScore =
                            (IF Len(signals) > 2 THEN parseInt(signals[3]) ELSE NaN)
                    /\ Len(signals) > 2 =>
                        /\ signals[3] = <<"1", "1">> => value.qualityScore = Num(11)
                        /\ signals[3] = <<"1", "x">> => value.qualityScore = Num(1)
                        /\ signals[3] = <<"-", "1">> => value.qualityScore = Num(0 - 1)
                        /\ signals[3] \in {<<>>, <<"x">>, <<"x", "1">>, <<"-">>}
                                => value.qualityScore = NaN
                /\ sdkCall[i].check = "throw" =>
                    sdkCall[i].thrown = "CircuitError" /\ sdkCall[i].value = NoValue

\* The check accepted a proof whose signal 0 is not '1', handed in after a
\* signer was connected and left as it was during the call.
C25_Witness ==
    \E i \in DOMAIN sdkCall :
        /\ sdkCall[i].op = "verifyProof" /\ sdkCall[i].pc = "done"
        /\ sdkCall[i].check = "true"
        /\ sdkCall[i].checked = sdkCall[i].proof
        /\ sdkCall[i].proof.publicSignals = <<<<"0">>, <<"x">>, <<"1", "1">>>>
        /\ sdkCall[i].value = [verified |-> FALSE, attributionProof |-> <<"x">>,
                            qualityScore |-> Num(11)]
        /\ signer # 0

\* C26: generateProof throws a ValidationError when the content is empty, a
\* quality metric is below 0 or above 100, or the contribution hash of the
\* parameters is not 66 characters long.
C26_GenerateProofValidates ==
    \A i \in DOMAIN sdkCall :
        sdkCall[i].op = "generateProof" =>
            LET metrics == sdkCall[i].validated.qualityMetrics
            IN  (\/ Len(sdkCall[i].validated.content) = 0
                 \/ \E n \in {metrics.authenticity, metrics.completeness,
                              metrics.accuracy, metrics.culturalSignificance} :
                        n < 0 \/ n > 100
                 \/ Len(sdkCall[i].params.contributionHash) # 66)
                    => sdkCall[i].thrown = "ValidationError"

\* C27: the SDK's submitContribution, called while no signer is connected,
\* throws a ContractError and sends no transaction.
C27_NoSignerThrows ==
    \A i \in DOMAIN sdkCall :
        (sdkCall[i].op = "sdk.submitContribution" /\ sdkCall[i].signer = 0)
            => sdkCall[i].thrown = "ContractError" /\ sdkCall[i].tx = 0

\* C28: the SDK's submitContribution never throws; when no signer is
\* connected, the transaction cannot be sent, the contract reverts (at the
\* gas estimate or when the transaction is mined) or the receipt does not
\* come, it resolves to success false with an empty transaction hash, block
\* number 0, gas used 0 and the message of the failure; and it resolves to
\* success true only when the transaction was mined, the contract accepted
\* the submission and the receipt was obtained.
C28_SubmitFailureResolves ==
    \A i \in DOMAIN sdkCall :
        (sdkCall[i].op = "sdk.submitContribution" /\ sdkCall[i].pc = "done") =>
            LET call  == sdkCall[i]
                value == sdkCall[i].value
            IN  /\ call.thrown = ""
                /\ (\/ call.signer = 0
                    \/ call.network # "mined"
                    \/ call.err # OK)
                    => /\ ~value.success
                       /\ value.transactionHash = <<>>
                       /\ value.blockNumber = 0
                       /\ value.gasUsed = 0
                       /\ value.error =
                            IF call.signer = 0
                            THEN "Signer not connected. Call connectSigner() first."
                            ELSE IF call.err # OK THEN call.err
                            ELSE "network error"
                /\ value.success
                    => /\ sent[call.tx].status = "mined"
                       /\ call.network = "mined"
                       /\ contributions[call.contributionHash].contributor
                            = sent[call.tx].from
                       /\ call.gasUsed = "BigNumber"
                       /\ value.transactionHash # <<>>

\* The contract accepted the submission, sent as the signer connected while
\* the call was suspended, but the receipt did not come: the call resolved
\* to the failure, and the contribution is the sender's.
C28_Witness ==
    \E i \in DOMAIN sdkCall :
        /\ sdkCall[i].op = "sdk.submitContribution" /\ sdkCall[i].pc = "done"
        /\ sdkCall[i].network = "waitFails"
        /\ sent[sdkCall[i].tx].status = "mined"
        /\ sdkCall[i].from # sdkCall[i].signer
        /\ ~sdkCall[i].value.success
        /\ sdkCall[i].value.error = "network error"
        /\ contributions[sdkCall[i].contributionHash].contributor = sdkCall[i].from

\* ------------------------------------------------------------------------
\* C31: each successful attest by verifier v on contribution c raises c's
\* vote count by exactly 1 and v's verificationCount by exactly 1, and emits
\* exactly one ContributionVerified event, which carries c's status and vote
\* count as they are after the call and comes after the StatusChanged event
\* of the same call when there is one.
C31_AttestEffects ==
    [][\A h \in Explored :
        votes'[h] # votes[h] =>
            \A s \in Sender, p \in Word, v \in BOOLEAN :
                (/\ verifyContributionError(s, h, p, v) = OK
                 /\ verifyContribution(s, h, p, v))
                => LET \* the events the step appends to the log of h
                       added == SubSeq(contributionEvents'[h],
                                       Len(contributionEvents[h]) + 1,
                                       Len(contributionEvents'[h]))
                       last  == added[Len(added)]
                   IN  /\ contributions'[h].verificationCount =
                              contributions[h].verificationCount + 1
                       /\ verifiers'[s].verificationCount =
                              verifiers[s].verificationCount + 1
                       /\ Len(added) \in {1, 2}
                       /\ Len(SelectSeq(added,
                              LAMBDA e : e.name = "ContributionVerified")) = 1
                       /\ last = [name |-> "ContributionVerified",
                                  contributionHash |-> h, verifier |-> s,
                                  status |-> contributions'[h].status,
                                  verificationCount |->
                                      contributions'[h].verificationCount]
                       /\ Len(added) = 2 =>
                              /\ added[1].name = "StatusChanged"
                              /\ added[1].newStatus = contributions'[h].status
    ]_vars

\* A finalizing attest has happened: the log of a contribution ends with the
\* StatusChanged event and then the ContributionVerified event of that call,
\* and an earlier attest emitted ContributionVerified alone.
C31_Witness ==
    \E h \in Explored :
        LET log == contributionEvents[h]
            n   == Len(log)
        IN  /\ n >= 3
            /\ log[n].name = "ContributionVerified"
            /\ log[n].status = contributions[h].status
            /\ log[n].verificationCount = contributions[h].verificationCount
            /\ log[n - 1].name = "StatusChanged"
            /\ log[n - 2].name = "ContributionVerified"
            /\ verifiers[log[n].verifier].verificationCount >= 1

\* ------------------------------------------------------------------------
\* Progress of a contribution: the owner registers, deactivates and registers
\* again the verifiers, a contribution is submitted, and the active verifiers
\* attest on it; an attestation that is possible again and again is
\* eventually made (strong fairness of LiveAttest).
MaxAttests == 4   \* attestations explored per contribution: one more than
                  \* MIN_VERIFICATIONS, so that the cap itself never decides

LiveSubmit ==
    \E s \in Sender :
        /\ submitContributionError(s, ScenarioHash, 1, 1) = OK
        /\ submitContribution(s, ScenarioHash, 1, 1)
        /\ UNCHANGED <<attested, lastCall, mempool, signer, registry, sdkCall, sent>>

LiveRegister ==
    \E a \in Sender :
        /\ Len(verifierList) < MaxList
        /\ registerVerifierError(owner, a, 1) = OK
        /\ registerVerifier(owner, a, 1)
        /\ UNCHANGED <<attested, lastCall, mempool, signer, registry, sdkCall, sent>>

LiveDeactivate ==
    \E a \in Sender :
        /\ deactivateVerifierError(owner, a) = OK
        /\ deactivateVerifier(owner, a)
        /\ UNCHANGED <<attested, lastCall, mempool, signer, registry, sdkCall, sent>>

LiveAttest ==
    \E s \in Sender, isValid \in BOOLEAN :
        /\ Len(votes[ScenarioHash]) < MaxAttests
        /\ verifyContributionError(s, ScenarioHash, 1, isValid) = OK
        /\ verifyContribution(s, ScenarioHash, 1, isValid)
        /\ UNCHANGED <<attested, lastCall, mempool, signer, registry, sdkCall, sent>>

LiveSpec ==
    /\ Init
    /\ [][LiveSubmit \/ LiveRegister \/ LiveDeactivate \/ LiveAttest]_vars
    /\ SF_vars(LiveAttest)

\* C32: when active verifiers keep attesting on the contributions that are
\* still Pending (again and again some verifier is active), every submitted
\* contribution eventually reaches a terminal status, with at most
\* MAX_VERIFICATIONS attestations recorded; and no contribution is ever
\* Pending with MAX_VERIFICATIONS votes.
C32_EventuallyTerminal ==
    /\ [](\A h \in Hash :
            contributions[h].status = "Pending" =>
                contributions[h].verificationCount < MAX_VERIFICATIONS)
    /\ ([]<>(\E a \in Address : verifiers[a].isActive)) =>
            (contributionExists(ScenarioHash) ~>
                (/\ Terminal(ScenarioHash)
                 /\ Len(votes[ScenarioHash]) <= MAX_VERIFICATIONS))

\* A contribution reached its terminal status after a verifier had been
\* deactivated and registered again, and a verifier is active.
C32_Witness ==
    /\ Terminal(ScenarioHash)
    /\ Len(votes[ScenarioHash]) <= MAX_VERIFICATIONS
    /\ Len(verifierList) > Cardinality({verifierList[i] : i \in DOMAIN verifierList})
    /\ \E a \in Address : verifiers[a].isActive

\* ------------------------------------------------------------------------
\* function getVerifierCount(): verifierList.length
getVerifierCount == Len(verifierList)

\* C33: getVerifierCount returns the number of registered verifiers: after
\* any registrations and deactivations the verifier list holds every verifier
\* that was ever registered exactly once, and nobody else.
C33_ListHoldsEachOnce ==
    LET \* the verifiers registered so far, by the VerifierRegistered events
        everRegistered == {verifierEvents[i].verifier : i \in DOMAIN verifierEvents}
    IN  /\ getVerifierCount = Cardinality(everRegistered)
        /\ \A a \in Address :
               Cardinality(Listed(a)) = (IF a \in everRegistered THEN 1 ELSE 0)

\* ------------------------------------------------------------------------
\* The gateway and the public-input vector. The public signals of a proof of
\* the circuit are its three outputs followed by its four public inputs, as
\* decimal strings; the parameters carry the hashes as 0x strings and the
\* threshold as a number. async verifyProof(proof, params) does not read
\* params.
BindingSpec ==
    Init /\ [][\/ \E i \in DOMAIN sdkCall,
                     s0 \in {<<"1">>, <<"0">>}, h \in {"1", "2"}, c \in {"1", "2"},
                     q \in {<<"8", "0">>, <<"0">>}, ph \in {"1", "2"}, pc \in {"1", "2"} :
                    verifyProof(i,
                                [proof |-> SampleProof.proof,
                                 publicSignals |->
                                    <<s0, <<"7">>, <<"9", "0">>, <<h>>, <<c>>, q, <<"3">>>>],
                                [contributionHash |-> <<"0", "x", ph>>,
                                 culturalContext |-> <<"0", "x", pc>>,
                                 qualityThreshold |-> 80,
                                 expectedAttributes |-> <<"0", "x", "3">>])
               \/ \E i \in DOMAIN sdkCall : verifyProofResume228(i)
               \/ \E i \in DOMAIN sdkCall, check \in PairingCheck :
                    verifyProofResume231(i, check)
               \/ \E i \in DOMAIN sdkCall, h \in {"1", "2"} :
                    callerMutates(i, NoValue,
                        [sdkCall[i].proof EXCEPT !.publicSignals[4] = <<h>>])]_vars

\* C34: the gateway decides against the public-input vector it is given:
\* verifyProof(proof, params) answers verified = true only if the public
\* inputs the proof was checked against are the contributionHash, the
\* culturalContext, the qualityThreshold and the expectedAttributes of params.
C34_VerifiedAgainstParams ==
    \A i \in DOMAIN sdkCall :
        (/\ sdkCall[i].op = "verifyProof" /\ sdkCall[i].pc = "done"
         /\ sdkCall[i].thrown = ""
         /\ sdkCall[i].value.verified)
        => LET signals == sdkCall[i].checked.publicSignals
               params  == sdkCall[i].params
           IN  \* component main {public [contributionHash, culturalContext,
               \* qualityThreshold, expectedAttributes]}, after the three outputs
               <<parseInt(At(signals, 3)), parseInt(At(signals, 4)),
                 parseInt(At(signals, 5)), parseInt(At(signals, 6))>>
               = <<parseInt(params.contributionHash), parseInt(params.culturalContext),
                   Num(params.qualityThreshold), parseInt(params.expectedAttributes)>>

\* ------------------------------------------------------------------------
\* The commitment of a contribution, as the SDK derives it for the chain and
\* as the circuit derives it from the witness. The hashes are free of
\* collisions, and no Poseidon hash equals a keccak256 hash.

\* The number of a vector of field elements, the first one weighing most;
\* no two vectors of one length share a number.
RECURSIVE FieldCode(_)
FieldCode(inputs) ==
    IF inputs = <<>> THEN 0
    ELSE Head(inputs) * 128 ^ (Len(inputs) - 1) + FieldCode(Tail(inputs))

\* Poseidon(n): one field element per input vector, none of them a keccak256.
Poseidon(inputs) == Len(KeccakTable) + 2 + 2 * FieldCode(inputs)

\* knowledgeHasher: Poseidon over the contributor identity and then the
\* knowledge content; hashComparator compares its output with the public
\* contributionHash.
knowledgeHasher(contributorIdentity, knowledgeContent) ==
    Poseidon(<<contributorIdentity>> \o knowledgeContent)

\* A commitment is derived for a contribution that validateContribution
\* accepts, of any content and contributor identity: the SDK's, and the
\* contributionHash the circuit accepts on the inputs prepareCircuitInputs
\* makes (stringToField is keccak256; maxKnowledgeLength, 256 in the
\* configuration and in the circuit, is the length of the longest content
\* here). The call, and the call before it, are kept.
Commit ==
    \E content \in Text(MaxText) \ {<<>>}, identity \in Text(MaxText) \ {<<>>} :
        LET contribution ==
                [SampleContribution EXCEPT !.content = content,
                                           !.contributorIdentity = identity]
            this == [contribution |-> contribution,
                     commitment |-> generateContributionHash(contribution),
                     constrained |->
                        knowledgeHasher(keccak256(identity),
                                        stringToFieldArray(content, MaxText))]
        IN  /\ lastCall' =
                [op |-> "generateContributionHash", this |-> this,
                 previous |-> IF lastCall.op = "generateContributionHash"
                              THEN lastCall.this ELSE this]
            /\ UNCHANGED <<chain, now, attested, mempool, signer, registry, sdkCall, sent>>

CommitSpec == Init /\ [][Commit]_vars

\* C35: the commitment binds the witness: with a hash free of collisions, two
\* contributions that differ in content or in contributor identity never
\* get the same commitment.
C35_CommitmentBinds ==
    lastCall.op = "generateContributionHash" =>
        LET a == lastCall.this
            b == lastCall.previous
        IN  (\/ a.contribution.content # b.contribution.content
             \/ a.contribution.contributorIdentity # b.contribution.contributorIdentity)
            => a.commitment # b.commitment

\* C36: the commitment is the same function when the proof is generated and
\* when the contribution is submitted: the commitment the SDK's
\* submitContribution sends to the chain is the contributionHash the circuit
\* constrains the witness to.
C36_SameCommitmentFunction ==
    lastCall.op = "generateContributionHash" =>
        lastCall.this.commitment = lastCall.this.constrained

\* ------------------------------------------------------------------------
\* C37: in every reachable state a contribution is Pending exactly when its
\* vote count is below MIN_VERIFICATIONS, and otherwise it is Verified or
\* Rejected with exactly MIN_VERIFICATIONS votes; the vote count never
\* exceeds MIN_VERIFICATIONS.
C37_CountDecidesStatus ==
    \A h \in Hash :
        LET c == contributions[h]
        IN  /\ c.verificationCount <= MIN_VERIFICATIONS
            /\ c.status = "Pending" <=> c.verificationCount < MIN_VERIFICATIONS
            /\ c.status # "Pending" =>
                   /\ c.status \in {"Verified", "Rejected"}
                   /\ c.verificationCount = MIN_VERIFICATIONS

\* A contribution is final with exactly MIN_VERIFICATIONS votes, and a
\* further attestation on it is turned down.
C37_Witness ==
    \E h \in Hash :
        /\ contributions[h].status \in {"Verified", "Rejected"}
        /\ contributions[h].verificationCount = MIN_VERIFICATIONS
        /\ Len(votes[h]) = MIN_VERIFICATIONS
        /\ \E s \in Sender : verifyContributionError(s, h, 1, TRUE) = NotPending

\* C38: the terminal status of a contribution is decided by the isValid flag
\* of the attestation that brings its vote count to MIN_VERIFICATIONS alone:
\* Verified if that flag is true, Rejected if it is false, whatever the flags
\* of the attestations before it.
C38_LastFlagDecides ==
    \A h \in Hash :
        Terminal(h) =>
            /\ Len(votes[h]) >= MIN_VERIFICATIONS
            /\ contributions[h].status =
                   (IF votes[h][MIN_VERIFICATIONS].isValid
                    THEN "Verified" ELSE "Rejected")

\* Both outcomes against the earlier flags: Verified after two attestations
\* of invalidity, or Rejected after two attestations of validity.
C38_Witness ==
    \E h \in Hash :
        /\ Terminal(h)
        /\ Len(votes[h]) = MIN_VERIFICATIONS
        /\ \A i \in 1..(MIN_VERIFICATIONS - 1) :
               votes[h][i].isValid # votes[h][MIN_VERIFICATIONS].isValid
        /\ contributions[h].status =
               (IF votes[h][MIN_VERIFICATIONS].isValid THEN "Verified" ELSE "Rejected")

\* ------------------------------------------------------------------------
\* C39: emergencyPause called by the owner changes no state and pauses
\* nothing: every call, of whichever function and by whomever, that would
\* succeed or fail before it has the same outcome after it; called by anyone
\* but the owner it fails with the "not owner" error.
C39_PausePausesNothing ==
    [][lastCall'.op = "emergencyPause" =>
        /\ \A s \in Sender :
               (emergencyPause(s) /\ Called("emergencyPause", emergencyPauseError(s)))
               => lastCall'.err = (IF s = owner THEN OK ELSE NotOwner)
        /\ UNCHANGED <<chain, now>>
        /\ \A s \in Sender :
            /\ \A h \in Hash, ctx \in Word, ap \in Proof :
                   submitContributionError(s, h, ctx, ap)' =
                       submitContributionError(s, h, ctx, ap)
            /\ \A h \in Hash, p \in Word, v \in BOOLEAN :
                   verifyContributionError(s, h, p, v)' =
                       verifyContributionError(s, h, p, v)
            /\ \A a \in Account, q \in Word :
                   registerVerifierError(s, a, q)' = registerVerifierError(s, a, q)
            /\ \A a \in Account :
                   /\ deactivateVerifierError(s, a)' = deactivateVerifierError(s, a)
                   /\ transferOwnershipError(s, a)' = transferOwnershipError(s, a)
            /\ emergencyPauseError(s)' = emergencyPauseError(s)
        /\ \A h \in Hash :
            /\ getContributionError(h)' = getContributionError(h)
            /\ isContributionVerifiedError(h)' = isContributionVerifiedError(h)]_vars

\* The owner has called emergencyPause while a contribution was Pending, and
\* an active verifier can still attest on it.
C39_Witness ==
    /\ lastCall = [op |-> "emergencyPause", err |-> OK]
    /\ \E h \in Hash, s \in Sender :
        /\ contributions[h].status = "Pending"
        /\ verifyContributionError(s, h, 1, TRUE) = OK

====
